---- MODULE Spec2Model ----
(***************************************************************************)
(* Location resolution and geospatial discovery core of the disaster       *)
(* response platform: the TTL cache (cacheService), the location resolver  *)
(* (geocodingService.geocode), the radius queries behind GET /api/resources *)
(* and GET /api/disasters/:id/resources, the POINT text producers and      *)
(* consumers, and the write handlers that publish socket events.           *)
(***************************************************************************)
EXTENDS Integers, Sequences, FiniteSets, TLC

VARIABLES
  clock,          \* wall clock, in seconds (new Date())
  cache,          \* rows of the cache table: [key, value, expires_at]
  lastWrite,      \* history: per key, the row of the last accepted set, NoRow after an accepted delete
  lastOp,         \* history: the last cacheService call made by a client and what it returned
  mappingService, \* process.env.MAPPING_SERVICE
  geo,            \* per request: position and locals of geocodingService.geocode
  resolved,       \* history: per name, the last resolution stored in the cache
  resources,      \* rows of the resources table
  disasters,      \* rows of the disasters table
  resp,           \* the last read request and the response it was given
  pt,             \* a point on its way from a producer of the text to a consumer
  writes,         \* per request: position and locals of the write handler
  published,      \* the last event given to io.emit
  answered,       \* the last response of a write handler, and what the handler had done
  started,        \* number of write requests received
  sockets,        \* per viewer: whether its socket is connected, and the page it shows
  local,          \* per viewer: the list held in the page's React state
  inbox,          \* per viewer: the events sent to its socket and not yet handled
  loads,          \* per viewer: the create request and the list request in flight
  emitted,        \* history: per committed write, whether its event was given to io.emit and the sockets connected then
  handled,        \* history: per viewer, the last event its page was given and the list before it
  sweep,          \* position and locals of cacheService.clearExpired, and what its last run met
  ui,             \* the filters, the debounce timer and the error of the ResourcesMap page of one viewer
  calls           \* the loadResources calls of that page that have not returned

vars == <<clock, cache, lastWrite, lastOp, mappingService, geo, resolved,
          resources, disasters, resp, pt, writes, published, answered, started,
          sockets, local, inbox, loads, emitted, handled, sweep, ui, calls>>

cacheVars == <<clock, cache, lastWrite, lastOp, mappingService, geo, resolved>>
storeVars == <<resources, disasters, resp>>
pointVars == <<pt>>
writeVars == <<writes, published, answered, started>>
viewVars == <<sockets, local, inbox, loads, emitted, handled>>
sweepVars == <<sweep>>
filterVars == <<ui, calls>>

----------------------------------------------------------------------------
\* Bounds of the model

MaxTime == 3
CACHE_TTL == 2
MaxTtl == 2
\* write requests received in one behaviour
MaxRequests == 1
MaxEvents == 1
MaxList == 3
\* disasters posted without location_name in one behaviour
MaxCalls == 2
\* loadResources calls one page makes in one behaviour, the two of its mount included
MaxLoads == 4

----------------------------------------------------------------------------
\* Values

\* null / undefined of the program, and the absence of a row (records, so that
\* they compare with the program's objects)
NULL == [null |-> TRUE]
NoRow == [norow |-> TRUE]
\* a query parameter or body field that is not given
Undefined == "<undefined>"

Names == {"Manhattan, NYC", "Atlantis"}
Providers == {"openstreetmap", "google", "mapbox"}
Outcomes == {"fail", "empty", "ok"}
\* the requests in flight at the same time
ReqIds == {1, 2}
\* the browsers that may open the application
Viewers == {"v1", "v2"}

\* DEFAULT_TTL = parseInt(process.env.CACHE_TTL || 3600, 10)
DEFAULT_TTL == CACHE_TTL

\* Buffer.from(s).toString('base64'): an injective encoding of the subject
Base64(s) == <<"b64", s>>

\* `geocode_${mappingService}_${base64(locationName)}`
GeocodeKey(svc, name) == <<"geocode", svc, Base64(name)>>

\* coordinates are counted in tenths of a degree: 40.7, -74 and 12.5, 50.3
LatOf(name) == IF name = "Manhattan, NYC" THEN 407 ELSE 125
LngOf(name) == IF name = "Manhattan, NYC" THEN -740 ELSE 503

\* what a provider answers for a name it knows: {lat, lng, displayName}
Coord(p, name) == [lat |-> LatOf(name), lng |-> LngOf(name), displayName |-> <<p, name>>]

Values == {[v |-> 1], [v |-> 2]}
GenericKeys == {<<"k1">>, <<"k2">>}
GeocodeKeys == {GeocodeKey(p, n) : p \in Providers, n \in Names}
Keys == GenericKeys \cup GeocodeKeys

----------------------------------------------------------------------------
\* cacheService

RowsOf(rows, key) == {row \in rows : row.key = key}

\* a get that returns the row of the key whatever its expires_at
CacheGet_IgnoringExpiry(rows, key, now, storeOk) ==
  IF storeOk /\ Cardinality(RowsOf(rows, key)) = 1
    THEN (CHOOSE row \in RowsOf(rows, key) : TRUE).value
    ELSE NULL

\* a get that hands the error of the store to its caller
CacheGet_ErrorAsValue(rows, key, now, storeOk) ==
  LET matching == {row \in RowsOf(rows, key) : row.expires_at > now}
  IN IF ~storeOk THEN [error |-> "store"]
     ELSE IF Cardinality(matching) = 1
       THEN (CHOOSE row \in matching : TRUE).value
       ELSE NULL

\* .from('cache').select('value').eq('key', key).gt('expires_at', now).single()
\* single() is an error unless exactly one row matches; get answers null then.
CacheGet(rows, key, now, storeOk) ==
  LET matching == {row \in RowsOf(rows, key) : row.expires_at > now}
  IN IF storeOk /\ Cardinality(matching) = 1
       THEN (CHOOSE row \in matching : TRUE).value
       ELSE NULL

\* an insert in place of the upsert: the earlier row of the key stays
CacheUpsert_Insert(rows, key, value, expiresAt) ==
  rows \cup {[key |-> key, value |-> value, expires_at |-> expiresAt]}

\* .from('cache').upsert({key, value, expires_at}): replace the row of the key
CacheUpsert(rows, key, value, expiresAt) ==
  (rows \ RowsOf(rows, key)) \cup {[key |-> key, value |-> value, expires_at |-> expiresAt]}

\* cacheService.set: expiresAt = now + ttl * 1000; false and no write on a store error
CacheSet(rows, key, value, ttl, now, storeOk) ==
  IF storeOk THEN CacheUpsert(rows, key, value, now + ttl) ELSE rows

\* cacheService.delete: .delete().eq('key', key)
CacheDelete(rows, key, storeOk) ==
  IF storeOk THEN rows \ RowsOf(rows, key) ELSE rows

\* a sweep whose delete has no filter
CacheClearExpired_Unfiltered(rows, now, storeOk) ==
  IF storeOk THEN {} ELSE rows

\* cacheService.clearExpired: .delete().lt('expires_at', now)
CacheClearExpired(rows, now, storeOk) ==
  IF storeOk THEN {row \in rows : ~(row.expires_at < now)} ELSE rows

----------------------------------------------------------------------------
\* geocodingService

\* geocodeWithOpenStreetMap / geocodeWithGoogleMaps / geocodeWithMapbox: the
\* coordinates when the service answers with a result, null when it answers
\* with none, when the request fails (caught) or when the API key is missing
GeocodeWithOpenStreetMap(name, outcome) ==
  IF outcome = "ok" THEN Coord("openstreetmap", name) ELSE NULL

GeocodeWithGoogleMaps(name, outcome) ==
  IF outcome = "ok" THEN Coord("google", name) ELSE NULL

GeocodeWithMapbox(name, outcome) ==
  IF outcome = "ok" THEN Coord("mapbox", name) ELSE NULL

ProviderAnswer(p, name, outcome) ==
  CASE p = "google" -> GeocodeWithGoogleMaps(name, outcome)
    [] p = "mapbox" -> GeocodeWithMapbox(name, outcome)
    [] OTHER -> GeocodeWithOpenStreetMap(name, outcome)

\* switch (mappingService.toLowerCase()): the one configured service is asked
GeocodeLookup(svc, name, st) ==
  CASE svc = "google" -> GeocodeWithGoogleMaps(name, st["google"])
    [] svc = "mapbox" -> GeocodeWithMapbox(name, st["mapbox"])
    [] OTHER -> GeocodeWithOpenStreetMap(name, st["openstreetmap"])

\* the services geocode has contacted after the switch
GeocodeContacted(svc) ==
  CASE svc = "google" -> {"google"}
    [] svc = "mapbox" -> {"mapbox"}
    [] OTHER -> {"openstreetmap"}

\* a lookup under a key that is not the key the result is stored under
GeocodeCached_OtherKey(rows, svc, name, now, getOk) ==
  CacheGet(rows, <<"geocode", svc, name>>, now, getOk)

\* const cachedResult = await cacheService.get(cacheKey)
GeocodeCached(rows, svc, name, now, getOk) ==
  CacheGet(rows, GeocodeKey(svc, name), now, getOk)

\* a store step that also caches the not-found outcome
GeocodeStore_Negative(rows, svc, name, coordinates, now, setOk) ==
  CacheSet(rows, GeocodeKey(svc, name),
           IF coordinates # NULL THEN coordinates ELSE [notFound |-> TRUE],
           DEFAULT_TTL, now, setOk)

\* if (coordinates) { await cacheService.set(cacheKey, coordinates) }
GeocodeStore(rows, svc, name, coordinates, now, setOk) ==
  IF coordinates # NULL
    THEN CacheSet(rows, GeocodeKey(svc, name), coordinates, DEFAULT_TTL, now, setOk)
    ELSE rows

\* The provider chain of the documentation (README "Multi-Service Geocoding":
\* fallback system using OpenStreetMap (free), Google Maps, or Mapbox): the
\* configured service first, then the others, free service first.
FallbackOrder == <<"openstreetmap", "google", "mapbox">>

ProviderChain(svc) ==
  <<svc>> \o SelectSeq(FallbackOrder, LAMBDA p : p # svc)

\* what trying the chain in order would return: the first non-empty answer
RECURSIVE FirstAnswer(_, _, _)
FirstAnswer(chain, name, st) ==
  IF chain = <<>> THEN NULL
  ELSE IF ProviderAnswer(Head(chain), name, st[Head(chain)]) # NULL
    THEN ProviderAnswer(Head(chain), name, st[Head(chain)])
    ELSE FirstAnswer(Tail(chain), name, st)

IdleGeo ==
  [pc |-> "idle", name |-> "", prior |-> NULL, afterNotFound |-> FALSE, hit |-> FALSE,
   coordinates |-> NULL, called |-> {}, chain |-> NULL, stored |-> FALSE, result |-> NULL]

----------------------------------------------------------------------------
\* Initial states

NoOp == [op |-> "none", key |-> <<>>, value |-> NULL, ttl |-> 0, at |-> 0,
         ok |-> FALSE, before |-> NoRow, had |-> FALSE]

InitCacheVars ==
  /\ clock = 0
  /\ cache = {}
  /\ lastWrite = [k \in Keys |-> NoRow]
  /\ lastOp = NoOp

NoResp == [route |-> "none", query |-> <<>>, status |-> 0, body |-> {}]

InitStoreVars ==
  /\ resources = {}
  /\ disasters = {}
  /\ resp = NoResp

InitGeoVars ==
  /\ geo = [r \in ReqIds |-> IdleGeo]
  /\ resolved = [n \in Names |-> NoRow]

NoResource == [has |-> {}, latitude |-> NULL, longitude |-> NULL, location_text |-> <<>>, location |-> <<>>]

IdlePoint ==
  [pc |-> "idle", path |-> "", lat |-> 0, lng |-> 0, text |-> <<>>, location |-> NULL,
   resource |-> NoResource, parsed |-> NULL]

InitPointVars == pt = IdlePoint

\* a body without fields, no event, a request slot that is free
NoBody == [type |-> Undefined, location_name |-> Undefined]
NoEvent == [event |-> "none", action |-> "", id |-> "", entity |-> NULL]

NoAnswer == [route |-> "none", status |-> 0, committed |-> FALSE, events |-> 0]

IdleWrite ==
  [pc |-> "idle", seq |-> 0, route |-> "", user |-> "", id |-> "", body |-> NoBody,
   name |-> Undefined, coordinates |-> NULL, data |-> NULL,
   committed |-> FALSE, events |-> 0, status |-> 0]

\* a browser that is not logged in: no socket, no page
NoSocket == [connected |-> FALSE, page |-> "none"]

NoLoad == [pc |-> "idle", data |-> <<>>]

NoPayload ==
  [name |-> "none", action |-> "", entity |-> [id |-> Undefined, rev |-> 0],
   resource_id |-> Undefined, disaster_id |-> Undefined, seq |-> 0]

NoHandled == [data |-> NoPayload, prev |-> <<>>]

\* clearExpired is not running and has not run; refreshed and removed tell
\* what the last run met: the key of a set accepted between its two steps
\* whose row was expired when it started, and whether it deleted rows
IdleSweep == [pc |-> "idle", now |-> 0, refreshed |-> <<>>, removed |-> FALSE]

InitSweepVars == sweep = IdleSweep

\* the page as it is before it is mounted: no filter, no timer, no call
NoUi == [resourceType |-> "", searchLocation |-> "", timer |-> FALSE, error |-> FALSE, started |-> 0]

InitFilterVars ==
  /\ ui = NoUi
  /\ calls = <<>>

InitViewVars ==
  /\ sockets = [v \in Viewers |-> NoSocket]
  /\ local = [v \in Viewers |-> <<>>]
  /\ inbox = [v \in Viewers |-> <<>>]
  /\ loads = [v \in Viewers |-> NoLoad]
  /\ emitted = <<>>
  /\ handled = [v \in Viewers |-> NoHandled]

InitWriteVars ==
  /\ writes = [r \in ReqIds |-> IdleWrite]
  /\ published = NoEvent
  /\ answered = NoAnswer
  /\ started = 0

----------------------------------------------------------------------------
\* Time

Tick ==
  /\ clock < MaxTime
  /\ clock' = clock + 1
  /\ UNCHANGED <<cache, lastWrite, lastOp, mappingService, geo, resolved>>
  /\ UNCHANGED <<storeVars, pointVars, writeVars, viewVars, sweepVars, filterVars>>

----------------------------------------------------------------------------
\* A client of cacheService (any of its operations, any key, any order)

ClientSet(key, value, ttl, storeOk) ==
  /\ cache' = CacheSet(cache, key, value, ttl, clock, storeOk)
  /\ lastWrite' = IF storeOk
                    THEN [lastWrite EXCEPT ![key] = [value |-> value, expires_at |-> clock + ttl]]
                    ELSE lastWrite
  /\ lastOp' = [op |-> "set", key |-> key, value |-> value, ttl |-> ttl, at |-> clock,
                ok |-> storeOk, before |-> lastWrite[key], had |-> RowsOf(cache, key) # {}]
  /\ sweep' = IF /\ sweep.pc = "running" /\ storeOk /\ ttl > 0
                  /\ \E row \in RowsOf(cache, key) : row.expires_at < sweep.now
                 THEN [sweep EXCEPT !.refreshed = key] ELSE sweep
  /\ UNCHANGED <<clock, mappingService, geo, resolved>>
  /\ UNCHANGED <<storeVars, pointVars, writeVars, viewVars, filterVars>>

ClientGet(key, storeOk) ==
  /\ lastOp' = [op |-> "get", key |-> key, value |-> CacheGet(cache, key, clock, storeOk),
                ttl |-> 0, at |-> clock, ok |-> storeOk, before |-> lastWrite[key],
                had |-> RowsOf(cache, key) # {}]
  /\ UNCHANGED <<clock, cache, lastWrite, mappingService, geo, resolved>>
  /\ UNCHANGED <<storeVars, pointVars, writeVars, viewVars, sweepVars, filterVars>>

ClientDelete(key, storeOk) ==
  /\ cache' = CacheDelete(cache, key, storeOk)
  /\ lastWrite' = IF storeOk THEN [lastWrite EXCEPT ![key] = NoRow] ELSE lastWrite
  /\ lastOp' = [op |-> "delete", key |-> key, value |-> NULL, ttl |-> 0, at |-> clock,
                ok |-> storeOk, before |-> lastWrite[key], had |-> RowsOf(cache, key) # {}]
  /\ UNCHANGED <<clock, mappingService, geo, resolved>>
  /\ UNCHANGED <<storeVars, pointVars, writeVars, viewVars, sweepVars, filterVars>>

ClearExpired(storeOk) ==
  /\ cache' = CacheClearExpired(cache, clock, storeOk)
  /\ UNCHANGED <<clock, lastWrite, lastOp, mappingService, geo, resolved>>
  /\ UNCHANGED <<storeVars, pointVars, writeVars, viewVars, sweepVars, filterVars>>

InitCache ==
  /\ InitCacheVars
  /\ InitGeoVars
  /\ InitStoreVars
  /\ InitPointVars
  /\ InitWriteVars
  /\ InitViewVars
  /\ InitSweepVars
  /\ InitFilterVars
  /\ mappingService = "openstreetmap"

NextCache ==
  \/ Tick
  \/ \E key \in GenericKeys, value \in Values, ttl \in 0..MaxTtl, storeOk \in BOOLEAN :
       ClientSet(key, value, ttl, storeOk)
  \/ \E key \in GenericKeys, storeOk \in BOOLEAN : ClientGet(key, storeOk)
  \/ \E key \in GenericKeys, storeOk \in BOOLEAN : ClientDelete(key, storeOk)
  \/ \E storeOk \in BOOLEAN : ClearExpired(storeOk)

SpecCache == InitCache /\ [][NextCache]_vars

----------------------------------------------------------------------------
\* cacheService.clearExpired step by step, run beside the clients of the cache

\* const now = new Date()
SweepStart ==
  /\ sweep.pc = "idle"
  /\ sweep' = [pc |-> "running", now |-> clock, refreshed |-> <<>>, removed |-> FALSE]
  /\ UNCHANGED <<clock, cache, lastWrite, lastOp, mappingService, geo, resolved>>
  /\ UNCHANGED <<storeVars, pointVars, writeVars, viewVars, filterVars>>

\* await supabase.from('cache').delete().lt('expires_at', now.toISOString()):
\* the store runs the delete on the rows it holds then
SweepRun(storeOk) ==
  /\ sweep.pc = "running"
  /\ cache' = CacheClearExpired(cache, sweep.now, storeOk)
  /\ sweep' = [pc |-> "idle", now |-> 0, refreshed |-> sweep.refreshed,
               removed |-> (cache' # cache)]
  /\ UNCHANGED <<clock, lastWrite, lastOp, mappingService, geo, resolved>>
  /\ UNCHANGED <<storeVars, pointVars, writeVars, viewVars, filterVars>>

\* the value the clients set beside the sweep
SweepValues == {[v |-> 1]}

NextSweep ==
  \/ Tick
  \/ \E key \in GenericKeys, value \in SweepValues, ttl \in 0..MaxTtl, storeOk \in BOOLEAN :
       ClientSet(key, value, ttl, storeOk)
  \/ \E key \in GenericKeys, storeOk \in BOOLEAN : ClientGet(key, storeOk)
  \/ \E key \in GenericKeys, storeOk \in BOOLEAN : ClientDelete(key, storeOk)
  \/ SweepStart
  \/ \E storeOk \in BOOLEAN : SweepRun(storeOk)

SpecSweep == InitCache /\ [][NextSweep]_vars

----------------------------------------------------------------------------
\* geocodingService.geocode, one step per await

\* another call for this name has already returned not-found to its caller
EndedNotFound(r, name) ==
  \E q \in ReqIds \ {r} :
    geo[q].pc = "done" /\ geo[q].name = name /\ ~geo[q].hit /\ geo[q].result = NULL

\* cacheKey; cachedResult = await cacheService.get(cacheKey); if (cachedResult) return it.
\* prior: the resolution of this name stored earlier and not yet expired, as far
\* as the cache store answers this call.
GeocodeCall(r, name, getOk) ==
  /\ geo[r].pc = "idle"
  /\ LET cachedResult == GeocodeCached(cache, mappingService, name, clock, getOk)
         prior == IF getOk /\ resolved[name] # NoRow /\ clock < resolved[name].expires_at
                    THEN resolved[name].value ELSE NULL
     IN geo' = [geo EXCEPT ![r] =
                  [IdleGeo EXCEPT !.name = name, !.prior = prior,
                     !.afterNotFound = EndedNotFound(r, name),
                     !.hit = (cachedResult # NULL),
                     !.result = cachedResult,
                     !.pc = IF cachedResult # NULL THEN "done" ELSE "lookup"]]
  /\ UNCHANGED <<clock, cache, lastWrite, lastOp, mappingService, resolved>>
  /\ UNCHANGED <<storeVars, pointVars, writeVars, viewVars, sweepVars, filterVars>>

\* coordinates = await this.geocodeWith...(locationName); st is how each service
\* would answer at this moment
GeocodeProvider(r, st) ==
  /\ geo[r].pc = "lookup"
  /\ LET coordinates == GeocodeLookup(mappingService, geo[r].name, st)
     IN geo' = [geo EXCEPT ![r].coordinates = coordinates,
                           ![r].called = GeocodeContacted(mappingService),
                           ![r].chain = FirstAnswer(ProviderChain(mappingService), geo[r].name, st),
                           ![r].pc = "store"]
  /\ UNCHANGED <<clock, cache, lastWrite, lastOp, mappingService, resolved>>
  /\ UNCHANGED <<storeVars, pointVars, writeVars, viewVars, sweepVars, filterVars>>

\* if (coordinates) await cacheService.set(cacheKey, coordinates); return coordinates
GeocodeReturn(r, setOk) ==
  /\ geo[r].pc = "store"
  /\ cache' = GeocodeStore(cache, mappingService, geo[r].name, geo[r].coordinates, clock, setOk)
  /\ resolved' = IF geo[r].coordinates # NULL /\ setOk
                   THEN [resolved EXCEPT ![geo[r].name] =
                           [value |-> geo[r].coordinates, expires_at |-> clock + DEFAULT_TTL]]
                   ELSE resolved
  /\ geo' = [geo EXCEPT ![r].result = geo[r].coordinates,
                        ![r].stored = (geo[r].coordinates # NULL /\ setOk),
                        ![r].pc = "done"]
  /\ UNCHANGED <<clock, lastWrite, lastOp, mappingService>>
  /\ UNCHANGED <<storeVars, pointVars, writeVars, viewVars, sweepVars, filterVars>>

\* the caller has taken the result
GeocodeDone(r) ==
  /\ geo[r].pc = "done"
  /\ geo' = [geo EXCEPT ![r] = IdleGeo]
  /\ UNCHANGED <<clock, cache, lastWrite, lastOp, mappingService, resolved>>
  /\ UNCHANGED <<storeVars, pointVars, writeVars, viewVars, sweepVars, filterVars>>

Init ==
  /\ InitCacheVars
  /\ InitGeoVars
  /\ InitStoreVars
  /\ InitPointVars
  /\ InitWriteVars
  /\ InitViewVars
  /\ InitSweepVars
  /\ InitFilterVars
  /\ mappingService \in Providers

Next ==
  \/ Tick
  \/ \E r \in ReqIds, name \in Names, getOk \in BOOLEAN : GeocodeCall(r, name, getOk)
  \/ \E r \in ReqIds, st \in [Providers -> Outcomes] : GeocodeProvider(r, st)
  \/ \E r \in ReqIds, setOk \in BOOLEAN : GeocodeReturn(r, setOk)
  \/ \E r \in ReqIds : GeocodeDone(r)
  \/ \E storeOk \in BOOLEAN : ClearExpired(storeOk)

Spec == Init /\ [][Next]_vars

----------------------------------------------------------------------------
\* Numbers and query parameters

\* a JavaScript / SQL number and NaN
Num(n) == [num |-> n]
NaN == [nan |-> TRUE]

\* the query strings requests are made with
NumberStrings == {"0", "1", "5", "10", "15"}
QueryStrings == NumberStrings \cup {"", "abc"}

\* parseFloat on those strings
ParseFloat(s) ==
  CASE s = "0" -> Num(0)
    [] s = "1" -> Num(1)
    [] s = "5" -> Num(5)
    [] s = "10" -> Num(10)
    [] s = "15" -> Num(15)
    [] OTHER -> NaN

\* if (x) on a query parameter: undefined and '' are falsy
Truthy(s) == s # Undefined /\ s # ""

\* the radius passed on in kilometres
KmToMeters_Unconverted(x) == x

\* parseFloat(radius) * 1000
KmToMeters(x) == IF x = NaN THEN NaN ELSE Num(x.num * 1000)

\* a number as an RPC argument: JSON has no NaN, it is sent as null
JsonNumber(x) == IF x = NaN THEN NULL ELSE x

\* type || null as an RPC argument
TypeArg(type) == IF Truthy(type) THEN [text |-> type] ELSE NULL

----------------------------------------------------------------------------
\* Point text: coordinates are counted in tenths of a degree, text is a
\* sequence of characters

Abs(n) == IF n < 0 THEN -n ELSE n

Chars(str) ==
  CASE str = "POINT(" -> <<"P", "O", "I", "N", "T", "(">>
    [] str = "POINT" -> <<"P", "O", "I", "N", "T">>
    [] str = "SRID=4326;" -> <<"S", "R", "I", "D", "=", "4", "3", "2", "6", ";">>
    [] str = "::geography" -> <<":", ":", "g", "e", "o", "g", "r", "a", "p", "h", "y">>
    [] str = "undefined" -> <<"u", "n", "d", "e", "f", "i", "n", "e", "d">>
    [] str = "NaN" -> <<"N", "a", "N">>
    [] OTHER -> <<str>>

DigitChars == <<"0", "1", "2", "3", "4", "5", "6", "7", "8", "9">>

\* \d
DigitClass == {DigitChars[i] : i \in 1..10}
DigitValue(c) == (CHOOSE i \in 1..10 : DigitChars[i] = c) - 1

RECURSIVE NatToChars(_)
NatToChars(n) ==
  IF n < 10 THEN <<DigitChars[n + 1]>>
  ELSE NatToChars(n \div 10) \o <<DigitChars[(n % 10) + 1]>>

\* `${x}` for a number x (given in tenths): "-74", "40.7", "0.5", "0"
NumberToChars(tenths) ==
  (IF tenths < 0 THEN <<"-">> ELSE <<>>)
    \o NatToChars(Abs(tenths) \div 10)
    \o (IF Abs(tenths) % 10 # 0 THEN <<".", DigitChars[(Abs(tenths) % 10) + 1]>> ELSE <<>>)

\* the longest prefix of text made of characters of the class
RECURSIVE PrefixIn(_, _)
PrefixIn(text, class) ==
  IF text # <<>> /\ Head(text) \in class
    THEN <<Head(text)>> \o PrefixIn(Tail(text), class)
    ELSE <<>>

Drop(text, n) == SubSeq(text, n + 1, Len(text))

RECURSIVE DigitsToNat(_, _)
DigitsToNat(digits, acc) ==
  IF digits = <<>> THEN acc
  ELSE DigitsToNat(Tail(digits), acc * 10 + DigitValue(Head(digits)))

\* parseFloat on characters: optional sign, digits, optional fraction; the
\* result in tenths, NaN when there is no digit
ParseFloatChars(text) ==
  LET negative == text # <<>> /\ Head(text) = "-"
      unsigned == IF negative THEN Tail(text) ELSE text
      whole == PrefixIn(unsigned, DigitClass)
      rest == Drop(unsigned, Len(whole))
      fraction == IF rest # <<>> /\ Head(rest) = "."
                    THEN PrefixIn(Tail(rest), DigitClass) ELSE <<>>
      tenths == DigitsToNat(whole, 0) * 10
                  + (IF fraction = <<>> THEN 0 ELSE DigitValue(Head(fraction)))
  IN IF whole = <<>> /\ fraction = <<>> THEN NaN
     ELSE Num(IF negative THEN -tenths ELSE tenths)

\* the first position at which pattern occurs in text, 0 when it does not
FindFirst(text, pattern) ==
  LET at == {i \in 1..(Len(text) - Len(pattern) + 1) :
               SubSeq(text, i, i + Len(pattern) - 1) = pattern}
  IN IF at = {} THEN 0 ELSE CHOOSE i \in at : \A j \in at : i <= j

\* text.replace(pattern, ''): the first occurrence removed
RemoveFirst(text, pattern) ==
  LET i == FindFirst(text, pattern)
  IN IF i = 0 THEN text
     ELSE SubSeq(text, 1, i - 1) \o Drop(text, i + Len(pattern) - 1)

\* [-\d.]
PointClass == DigitClass \cup {"-", "."}

\* text.match(/POINT\(([-\d.]+) ([-\d.]+)\)/): the two groups, or <<>> for no match
MatchPoint(text) ==
  LET i == FindFirst(text, Chars("POINT("))
      afterOpen == Drop(text, i + 5)
      first == PrefixIn(afterOpen, PointClass)
      afterFirst == Drop(afterOpen, Len(first))
      second == PrefixIn(Tail(afterFirst), PointClass)
      afterSecond == Drop(Tail(afterFirst), Len(second))
  IN IF i = 0 \/ first = <<>> \/ afterFirst = <<>> \/ Head(afterFirst) # " " THEN <<>>
     ELSE IF second = <<>> \/ afterSecond = <<>> \/ Head(afterSecond) # ")" THEN <<>>
     ELSE <<first, second>>

\* the producers swapped: latitude written first
toGeographyPoint_LatFirst(lat, lng) ==
  Chars("POINT(") \o NumberToChars(lat) \o <<" ">> \o NumberToChars(lng) \o <<")">>

\* geocodingService.toGeographyPoint(lat, lng): `POINT(${lng} ${lat})`
toGeographyPoint(lat, lng) ==
  Chars("POINT(") \o NumberToChars(lng) \o <<" ">> \o NumberToChars(lat) \o <<")">>

\* POST /api/resources: location: `POINT(${coordinates.lng} ${coordinates.lat})`
CreateResourcePoint(coordinates) ==
  Chars("POINT(") \o NumberToChars(coordinates.lng) \o <<" ">>
    \o NumberToChars(coordinates.lat) \o <<")">>

\* PUT /api/resources/:id: updateData.location = `POINT(${coordinates.lng} ${coordinates.lat})`
UpdateResourcePoint(coordinates) ==
  Chars("POINT(") \o NumberToChars(coordinates.lng) \o <<" ">>
    \o NumberToChars(coordinates.lat) \o <<")">>

\* `${x}` for x a number or NaN
TemplateChars(x) == IF x = NaN THEN Chars("NaN") ELSE NumberToChars(x.num)

\* location.split(','): the pieces between the commas
RECURSIVE SplitComma(_)
SplitComma(text) ==
  LET i == FindFirst(text, <<",">>)
  IN IF i = 0 THEN <<text>> ELSE <<SubSeq(text, 1, i - 1)>> \o SplitComma(Drop(text, i))

\* GET /api/disasters: [lat, lng] = location.split(',').map(parseFloat);
\* `POINT(${lng} ${lat})::geography`
DisasterFilterPoint(location) ==
  LET parts == SplitComma(location)
      lat == TemplateChars(ParseFloatChars(parts[1]))
      lng == IF Len(parts) >= 2 THEN TemplateChars(ParseFloatChars(parts[2]))
             ELSE Chars("undefined")
  IN Chars("POINT(") \o lng \o <<" ">> \o lat \o <<")">> \o Chars("::geography")

\* PostGIS reading POINT(x y): x is the longitude, y the latitude
StGeogFromText(text) ==
  LET groups == MatchPoint(text)
  IN IF groups = <<>> THEN NULL
     ELSE [lat |-> ParseFloatChars(groups[2]).num, lng |-> ParseFloatChars(groups[1]).num]

\* ST_AsText(location): POINT(x y)
StAsText(location) ==
  Chars("POINT(") \o NumberToChars(location.lng) \o <<" ">>
    \o NumberToChars(location.lat) \o <<")">>

\* getResourceCoordinates(resource) of ResourcesMap.jsx; resource.has names the
\* fields that are not undefined
getResourceCoordinates(resource) ==
  IF "latitude" \in resource.has /\ "longitude" \in resource.has
    THEN [lat |-> resource.latitude, lng |-> resource.longitude]
  ELSE IF "location_text" \in resource.has /\ MatchPoint(resource.location_text) # <<>>
    THEN [lat |-> ParseFloatChars(MatchPoint(resource.location_text)[2]),
          lng |-> ParseFloatChars(MatchPoint(resource.location_text)[1])]
  ELSE IF /\ "location" \in resource.has
          /\ FindFirst(resource.location, Chars("POINT")) # 0
          /\ MatchPoint(RemoveFirst(resource.location, Chars("SRID=4326;"))) # <<>>
    THEN LET coords == MatchPoint(RemoveFirst(resource.location, Chars("SRID=4326;")))
         IN [lat |-> ParseFloatChars(coords[2]), lng |-> ParseFloatChars(coords[1])]
  ELSE NULL

----------------------------------------------------------------------------
\* The store: PostGIS points and the SQL functions

\* distance in meters between two points (lat, lng in grid steps): a step of
\* latitude is 5 km, a step of longitude 9.9 km
Distance(a, b) == 5000 * Abs(a.lat - b.lat) + 9900 * Abs(a.lng - b.lng)

\* ST_SetSRID(ST_Point(center_lng, center_lat), 4326)::geography, NULL on a NULL argument
StPoint(lng, lat) ==
  IF lng = NULL \/ lat = NULL THEN NULL ELSE [lat |-> lat.num, lng |-> lng.num]

\* a distance test that lets a row without a point pass
StDWithin_NullPasses(location, point, meters) ==
  IF point = NULL \/ meters = NULL THEN "unknown"
  ELSE IF location = NULL THEN "true"
  ELSE IF Distance(location, point) <= meters.num THEN "true" ELSE "false"

\* ST_DWithin(location, point, meters) in SQL's three-valued logic
StDWithin(location, point, meters) ==
  IF location = NULL \/ point = NULL \/ meters = NULL THEN "unknown"
  ELSE IF Distance(location, point) <= meters.num THEN "true" ELSE "false"

SqlOr(a, b) ==
  IF a = "true" \/ b = "true" THEN "true"
  ELSE IF a = "unknown" \/ b = "unknown" THEN "unknown" ELSE "false"

SqlAnd(a, b) ==
  IF a = "false" \/ b = "false" THEN "false"
  ELSE IF a = "unknown" \/ b = "unknown" THEN "unknown" ELSE "true"

SqlBool(b) == IF b THEN "true" ELSE "false"

\* resource_type IS NULL OR r.type = resource_type
TypeMatches(row, resource_type) ==
  SqlOr(SqlBool(resource_type = NULL),
        IF resource_type = NULL THEN "unknown" ELSE SqlBool(row.type = resource_type.text))

\* ST_Y(location::geometry), ST_X(location::geometry)
StY(location) == IF location = NULL THEN NULL ELSE Num(location.lat)
StX(location) == IF location = NULL THEN NULL ELSE Num(location.lng)

\* the columns the resource functions return
ResourceColumns(row) ==
  [id |-> row.id, type |-> row.type, location_name |-> row.location_name,
   location_text |-> IF row.location = NULL THEN NULL ELSE [text |-> StAsText(row.location)],
   latitude |-> StY(row.location), longitude |-> StX(row.location)]

\* get_resources_near_point(center_lng, center_lat, radius_meters, resource_type)
get_resources_near_point(rows, center_lng, center_lat, radius_meters, resource_type) ==
  {ResourceColumns(row) : row \in
     {r \in rows :
        SqlAnd(TypeMatches(r, resource_type),
               StDWithin(r.location, StPoint(center_lng, center_lat), radius_meters)) = "true"}}

\* get_resources_with_text_location(p_resource_type, p_center_lat, p_center_lng, p_radius_meters)
get_resources_with_text_location(rows, p_resource_type, p_center_lat, p_center_lng, p_radius_meters) ==
  {ResourceColumns(row) : row \in
     {r \in rows :
        SqlAnd(TypeMatches(r, p_resource_type),
               SqlOr(SqlOr(SqlBool(p_center_lat = NULL), SqlBool(p_center_lng = NULL)),
                     StDWithin(r.location, StPoint(p_center_lng, p_center_lat), p_radius_meters)))
          = "true"}}

\* get_disaster_coordinates(disaster_id): one row {longitude, latitude} per disaster of that id
get_disaster_coordinates(rows, disaster_id) ==
  {[longitude |-> StX(d.location), latitude |-> StY(d.location)] : d \in
     {r \in rows : r.id = disaster_id}}

----------------------------------------------------------------------------
\* Read routes of routes/resources.js

Response(route, query, status, body) ==
  [route |-> route, query |-> query, status |-> status, body |-> body]

\* const { lat, lng, radius = 10, type } = req.query
RadiusOrDefault(radius) == IF radius = Undefined THEN "10" ELSE radius

\* GET /api/resources
GetResources(rows, query, dbOk) ==
  IF Truthy(query.lat) /\ Truthy(query.lng)
    THEN LET latitude == ParseFloat(query.lat)
             longitude == ParseFloat(query.lng)
             radiusMeters == KmToMeters(ParseFloat(RadiusOrDefault(query.radius)))
         IN IF ~dbOk
              THEN Response("GET /api/resources", query, 500, {})
              ELSE Response("GET /api/resources", query, 200,
                     get_resources_near_point(rows, JsonNumber(longitude), JsonNumber(latitude),
                                              JsonNumber(radiusMeters), TypeArg(query.type)))
    ELSE IF ~dbOk
      THEN Response("GET /api/resources", query, 500, {})
      ELSE Response("GET /api/resources", query, 200,
             get_resources_with_text_location(rows, TypeArg(query.type), NULL, NULL, NULL))

\* !coordinates.longitude || !coordinates.latitude
FalsyNumber(x) == x = NULL \/ x = Num(0)

\* GET /api/disasters/:id/resources
GetDisasterResources(rows, disasterRows, id, query, dbOk) ==
  LET coordinatesArray == get_disaster_coordinates(disasterRows, id)
      route == "GET /api/disasters/:id/resources"
      q == [id |-> id, radius |-> query.radius, type |-> query.type]
  IN IF ~dbOk THEN Response(route, q, 500, {})
     ELSE IF coordinatesArray = {} THEN Response(route, q, 404, {})
     ELSE LET coordinates == CHOOSE c \in coordinatesArray : TRUE
          IN IF FalsyNumber(coordinates.longitude) \/ FalsyNumber(coordinates.latitude)
               THEN Response(route, q, 400, {})
               ELSE LET radiusMeters == KmToMeters(ParseFloat(RadiusOrDefault(query.radius)))
                    IN Response(route, q, 200,
                         get_resources_near_point(rows, coordinates.longitude, coordinates.latitude,
                                                  JsonNumber(radiusMeters), TypeArg(query.type)))

\* Rows the tables can hold (schema: location is nullable, type and
\* location_name are NOT NULL)
ResourcePool ==
  { [id |-> "r1", type |-> "shelter", location_name |-> "5 km north", location |-> [lat |-> 1, lng |-> 0]],
    [id |-> "r2", type |-> "medical", location_name |-> "9.9 km east", location |-> [lat |-> 0, lng |-> 1]],
    [id |-> "r3", type |-> "shelter", location_name |-> "15 km north", location |-> [lat |-> 3, lng |-> 0]],
    [id |-> "r4", type |-> "medical", location_name |-> "10 km north", location |-> [lat |-> 2, lng |-> 0]],
    [id |-> "r5", type |-> "shelter", location_name |-> "unresolved", location |-> NULL],
    [id |-> "r6", type |-> "medical", location_name |-> "origin", location |-> [lat |-> 0, lng |-> 0]] }

DisasterIds == {"d1", "d2"}

DisasterLocations == {NULL, [lat |-> 1, lng |-> 1], [lat |-> 0, lng |-> 1], [lat |-> 0, lng |-> 0]}

ResourceTypes == {"shelter", "medical"}

ResourceQueries ==
  [lat : {Undefined, "0", "1", "abc"}, lng : {Undefined, "0", "1", "abc"},
   radius : {Undefined, "0", "5", "10", "15", "abc"}, type : {Undefined, ""} \cup ResourceTypes]

DisasterResourceQueries ==
  [radius : {Undefined, "0", "5", "10", "15", "abc"}, type : {Undefined, ""} \cup ResourceTypes]

InitQuery ==
  /\ InitCacheVars
  /\ InitGeoVars
  /\ InitPointVars
  /\ InitWriteVars
  /\ InitViewVars
  /\ InitSweepVars
  /\ InitFilterVars
  /\ mappingService = "openstreetmap"
  /\ resources \in SUBSET ResourcePool
  /\ \E location \in DisasterLocations :
       disasters = {[id |-> "d1", owner_id |-> "netrunnerX", location_name |-> "d1", location |-> location]}
  /\ resp = NoResp

HandleGetResources(query, dbOk) ==
  /\ resp = NoResp
  /\ resp' = GetResources(resources, query, dbOk)
  /\ UNCHANGED <<resources, disasters>>
  /\ UNCHANGED <<cacheVars, pointVars, writeVars, viewVars, sweepVars, filterVars>>

HandleGetDisasterResources(id, query, dbOk) ==
  /\ resp = NoResp
  /\ resp' = GetDisasterResources(resources, disasters, id, query, dbOk)
  /\ UNCHANGED <<resources, disasters>>
  /\ UNCHANGED <<cacheVars, pointVars, writeVars, viewVars, sweepVars, filterVars>>

\* a client calling the SQL function with a centre through the RPC interface
HandleRpcTextLocation(query) ==
  /\ resp = NoResp
  /\ resp' = Response("rpc get_resources_with_text_location", query, 200,
               get_resources_with_text_location(resources, TypeArg(query.type),
                 JsonNumber(ParseFloat(query.lat)), JsonNumber(ParseFloat(query.lng)),
                 JsonNumber(KmToMeters(ParseFloat(RadiusOrDefault(query.radius))))))
  /\ UNCHANGED <<resources, disasters>>
  /\ UNCHANGED <<cacheVars, pointVars, writeVars, viewVars, sweepVars, filterVars>>

\* the response has been sent; the next read request can be looked at
ResponseSent ==
  /\ resp # NoResp
  /\ resp' = NoResp
  /\ UNCHANGED <<resources, disasters>>
  /\ UNCHANGED <<cacheVars, pointVars, writeVars, viewVars, sweepVars, filterVars>>

NextQuery ==
  \/ ResponseSent
  \/ \E query \in ResourceQueries, dbOk \in BOOLEAN : HandleGetResources(query, dbOk)
  \/ \E id \in DisasterIds, query \in DisasterResourceQueries, dbOk \in BOOLEAN :
       HandleGetDisasterResources(id, query, dbOk)
  \/ \E query \in ResourceQueries : HandleRpcTextLocation(query)

SpecQuery == InitQuery /\ [][NextQuery]_vars

----------------------------------------------------------------------------
\* The point text from its producers to its consumers

\* the coordinates the producers are given, in tenths of a degree
PointLats == {-12, 0, 407}
PointLngs == {-740, 5, 12}

WritePaths == {"POST /api/disasters", "PUT /api/disasters/:id",
               "POST /api/resources", "PUT /api/resources/:id"}
FilterPath == "GET /api/disasters"

\* ?location=<lat>,<lng> as the client writes it
LocationParam(lat, lng) == NumberToChars(lat) \o <<",">> \o NumberToChars(lng)

\* the text each path builds from coordinates {lat, lng}
PointTextOn(path, lat, lng) ==
  CASE path = "POST /api/disasters" -> toGeographyPoint(lat, lng)
    [] path = "PUT /api/disasters/:id" -> toGeographyPoint(lat, lng)
    [] path = "POST /api/resources" -> CreateResourcePoint([lat |-> lat, lng |-> lng])
    [] path = "PUT /api/resources/:id" -> UpdateResourcePoint([lat |-> lat, lng |-> lng])
    [] OTHER -> DisasterFilterPoint(LocationParam(lat, lng))

\* the shapes in which a stored resource reaches getResourceCoordinates: a row
\* of the SQL functions, a row with location_text only, a row with the
\* location column as EWKT, or as WKT
ResourceShapes == {"rpc", "text", "ewkt", "wkt"}

ResourceAs(shape, location) ==
  CASE shape = "rpc" ->
         [NoResource EXCEPT !.has = {"latitude", "longitude", "location_text"},
            !.latitude = StY(location), !.longitude = StX(location),
            !.location_text = StAsText(location)]
    [] shape = "text" ->
         [NoResource EXCEPT !.has = {"location_text"}, !.location_text = StAsText(location)]
    [] shape = "ewkt" ->
         [NoResource EXCEPT !.has = {"location"},
            !.location = Chars("SRID=4326;") \o StAsText(location)]
    [] OTHER ->
         [NoResource EXCEPT !.has = {"location"}, !.location = StAsText(location)]

\* a handler builds the text from the coordinates it holds
ProducePoint(path, lat, lng) ==
  /\ pt.pc = "idle"
  /\ pt' = [IdlePoint EXCEPT !.pc = "text", !.path = path, !.lat = lat, !.lng = lng,
              !.text = PointTextOn(path, lat, lng)]
  /\ UNCHANGED <<cacheVars, storeVars, writeVars, viewVars, sweepVars, filterVars>>

\* the store reads the text: as the location column of the written row, or
\* as the centre of the radius filter
StorePoint ==
  /\ pt.pc = "text"
  /\ LET location == StGeogFromText(pt.text)
     IN pt' = [pt EXCEPT !.location = location,
                 !.pc = IF pt.path = FilterPath THEN "done" ELSE "stored",
                 !.parsed = IF pt.path = FilterPath /\ location # NULL
                              THEN [lat |-> Num(location.lat), lng |-> Num(location.lng)]
                              ELSE NULL]
  /\ UNCHANGED <<cacheVars, storeVars, writeVars, viewVars, sweepVars, filterVars>>

\* the map page takes the coordinates of the stored resource
ReadPoint(shape) ==
  /\ pt.pc = "stored"
  /\ pt.location # NULL
  /\ LET resource == ResourceAs(shape, pt.location)
     IN pt' = [pt EXCEPT !.resource = resource, !.parsed = getResourceCoordinates(resource),
                 !.pc = "done"]
  /\ UNCHANGED <<cacheVars, storeVars, writeVars, viewVars, sweepVars, filterVars>>

PointDone ==
  /\ pt.pc = "done"
  /\ pt' = IdlePoint
  /\ UNCHANGED <<cacheVars, storeVars, writeVars, viewVars, sweepVars, filterVars>>

InitPoint ==
  /\ InitCacheVars
  /\ InitGeoVars
  /\ InitStoreVars
  /\ InitPointVars
  /\ InitWriteVars
  /\ InitViewVars
  /\ InitSweepVars
  /\ InitFilterVars
  /\ mappingService = "openstreetmap"

NextPoint ==
  \/ \E path \in WritePaths \cup {FilterPath}, lat \in PointLats, lng \in PointLngs :
       ProducePoint(path, lat, lng)
  \/ StorePoint
  \/ \E shape \in ResourceShapes : ReadPoint(shape)
  \/ PointDone

SpecPoint == InitPoint /\ [][NextPoint]_vars

----------------------------------------------------------------------------
\* Write routes of routes/resources.js and routes/disasters.js, one step per await

\* mockUsers, and a caller that is not in the table
RoleOf(user) ==
  CASE user \in {"netrunnerX", "reliefAdmin"} -> "admin"
    [] user \in {"contributor1", "contributor2"} -> "contributor"
    [] user \in {"citizen1", "citizen2"} -> "user"
    [] OTHER -> "none"

Users == {"netrunnerX", "contributor1", "citizen1", "stranger"}

ResourceRoutes == {"POST /api/resources", "PUT /api/resources/:id", "DELETE /api/resources/:id"}
DisasterRoutes == {"POST /api/disasters", "PUT /api/disasters/:id", "DELETE /api/disasters/:id"}
CreateRoutes == {"POST /api/resources", "POST /api/disasters"}
UpdateRoutes == {"PUT /api/resources/:id", "PUT /api/disasters/:id"}
DeleteRoutes == {"DELETE /api/resources/:id", "DELETE /api/disasters/:id"}

\* a location_name that is not a string (a JSON number): Buffer.from throws on it
NonString == "<123>"

\* request bodies: type stands for the fields other than location_name (name
\* and type of a resource, title and description of a disaster), given
\* together or not at all
Bodies ==
  {NoBody} \cup [type : {"medical"}, location_name : {Undefined, NonString} \cup Names]
\* a delete has no body; an update without any field is not looked at
BodiesOf(route) ==
  IF route \in DeleteRoutes THEN {NoBody}
  ELSE IF route \in UpdateRoutes THEN Bodies \ {NoBody} ELSE Bodies

\* the rows present before the first request, and the ids the store gives to
\* the rows created by the first, second, ... request
SeedResources ==
  {[id |-> "r1", type |-> "shelter", location_name |-> "Atlantis",
    location |-> [lat |-> LatOf("Atlantis"), lng |-> LngOf("Atlantis")]]}
SeedDisasters ==
  {[id |-> "d1", owner_id |-> "contributor1", location_name |-> "Atlantis",
    location |-> [lat |-> LatOf("Atlantis"), lng |-> LngOf("Atlantis")]]}
NewIds == <<"n1", "n2", "n3", "n4">>
TargetIds(route) ==
  IF route \in CreateRoutes THEN {""}
  ELSE IF route \in ResourceRoutes THEN {"r1", "n1", "r9"} ELSE {"d1", "n1", "d9"}

\* return res.status(status).json(...)
Respond(w, status) == [w EXCEPT !.pc = "done", !.status = status]

\* the handler goes on to its next await, or has answered: the answer is
\* recorded with what the handler had done by then, and the slot is free
Continue(r, w) ==
  IF w.pc = "done"
    THEN /\ writes' = [writes EXCEPT ![r] = IdleWrite]
         /\ answered' = [route |-> w.route, status |-> w.status, committed |-> w.committed,
                         events |-> w.events]
    ELSE /\ writes' = [writes EXCEPT ![r] = w]
         /\ answered' = answered

\* the handler up to its first await; of the request it keeps what it reads later
Begin(w) ==
  LET role == RoleOf(w.user)
      located == [w EXCEPT !.name = w.body.location_name, !.body.location_name = Undefined]
  IN CASE role = "none" -> Respond(w, 401)
       [] w.route = "POST /api/resources" ->
            IF role # "admin" /\ role # "contributor" THEN Respond(w, 403)
            ELSE IF w.body.type = Undefined \/ ~Truthy(w.body.location_name)
              THEN Respond(w, 400)
            ELSE [located EXCEPT !.pc = "geocode", !.user = ""]
       [] w.route = "PUT /api/resources/:id" ->
            IF role # "admin" /\ role # "contributor" THEN Respond(w, 403)
            ELSE [w EXCEPT !.pc = "check", !.user = ""]
       [] w.route = "DELETE /api/resources/:id" ->
            IF role # "admin" THEN Respond(w, 403) ELSE [w EXCEPT !.pc = "check", !.user = ""]
       [] w.route = "POST /api/disasters" ->
            IF role \notin {"admin", "contributor"} THEN Respond(w, 403)
            ELSE IF w.body.type = Undefined THEN Respond(w, 400)
            ELSE IF ~Truthy(w.body.location_name) THEN [w EXCEPT !.pc = "extract"]
            ELSE [located EXCEPT !.pc = "geocode"]
       [] OTHER -> [w EXCEPT !.pc = "check"]

\* a request arrives: it is given the first free slot
StartWrite(r, route, user, id, body) ==
  /\ writes[r].pc = "idle"
  /\ \A q \in ReqIds : q < r => writes[q].pc # "idle"
  /\ started < MaxRequests
  /\ started' = started + 1
  /\ Continue(r, Begin([IdleWrite EXCEPT !.seq = started + 1, !.route = route, !.user = user,
                          !.id = id, !.body = body]))
  /\ UNCHANGED <<published, cacheVars, storeVars, pointVars, viewVars, sweepVars, filterVars>>

RowsWithId(rows, id) == {row \in rows : row.id = id}

\* .select(...).eq('id', id).single() before an update or a delete; when no
\* row has the id the store's error is answered 404 or 500, by its wording
CheckExists(r, dbOk, noRowsFound) ==
  /\ writes[r].pc = "check"
  /\ LET w == writes[r]
         found == RowsWithId(IF w.route \in ResourceRoutes THEN resources ELSE disasters, w.id)
         role == RoleOf(w.user)
         locationGiven == Truthy(w.body.location_name)
         located == [w EXCEPT !.pc = "geocode", !.user = "", !.name = w.body.location_name,
                       !.body.location_name = Undefined]
         unlocated == [w EXCEPT !.pc = "write", !.user = "", !.body.location_name = Undefined]
     IN Continue(r,
          IF ~dbOk THEN Respond(w, 500)
          ELSE IF found = {} THEN Respond(w, IF noRowsFound THEN 404 ELSE 500)
          ELSE LET existing == CHOOSE row \in found : TRUE
               IN CASE w.route = "PUT /api/resources/:id" ->
                         \* existingResource holds the id only: location_name is undefined
                         IF locationGiven THEN located ELSE unlocated
                    [] w.route = "DELETE /api/resources/:id" -> unlocated
                    [] w.route = "PUT /api/disasters/:id" ->
                         IF existing.owner_id # w.user /\ role # "admin" THEN Respond(w, 403)
                         ELSE IF locationGiven /\ w.body.location_name # existing.location_name
                           THEN located ELSE unlocated
                    [] OTHER ->
                         \* the delete that follows is the caller's: req.user stays in scope
                         IF existing.owner_id # w.user /\ role # "admin" THEN Respond(w, 403)
                         ELSE [unlocated EXCEPT !.user = w.user])
  /\ UNCHANGED <<published, started, cacheVars, storeVars, pointVars, viewVars, sweepVars, filterVars>>

\* the description of a disaster created without location_name, and what the
\* language model makes of it
Description == "Flooding in lower Manhattan, NYC"
LocationKey(description) == <<"loc", Base64(description)>>
GeminiOutcomes == {"fail", "none", "ok"}
GeminiText(outcome) == IF outcome = "ok" THEN "Manhattan, NYC" ELSE "LOCATION_NOT_FOUND"

\* finalLocationName = await geminiService.extractLocation(description)
ExtractLocation(r, getOk, outcome, setOk) ==
  /\ writes[r].pc = "extract"
  /\ LET w == writes[r]
         cached == CacheGet(cache, LocationKey(Description), clock, getOk)
         text == GeminiText(outcome)
     IN IF cached # NULL
          THEN /\ Continue(r, [w EXCEPT !.pc = "geocode", !.name = cached.text])
               /\ cache' = cache
          ELSE IF outcome = "fail"
            THEN /\ Continue(r, Respond(w, 500))
                 /\ cache' = cache
            ELSE /\ cache' = CacheSet(cache, LocationKey(Description), [text |-> text],
                                      DEFAULT_TTL, clock, setOk)
                 /\ Continue(r, IF text = "LOCATION_NOT_FOUND" THEN Respond(w, 400)
                                ELSE [w EXCEPT !.pc = "geocode", !.name = text])
  /\ UNCHANGED <<clock, lastWrite, lastOp, mappingService, geo, resolved>>
  /\ UNCHANGED <<published, started, storeVars, pointVars, viewVars, sweepVars, filterVars>>

\* coordinates = await geocodingService.geocode(name), and what the handler
\* does with a throw, with null and with coordinates
Geocode(r, getOk, outcome, setOk) ==
  /\ writes[r].pc = "geocode"
  /\ LET w == writes[r]
         throws == w.name = NonString
         cachedResult == IF throws THEN NULL
                         ELSE GeocodeCached(cache, mappingService, w.name, clock, getOk)
         coordinates == IF throws THEN NULL
                        ELSE IF cachedResult # NULL THEN cachedResult
                        ELSE GeocodeLookup(mappingService, w.name, [p \in Providers |-> outcome])
         point == IF coordinates = NULL THEN NULL
                  ELSE [lat |-> coordinates.lat, lng |-> coordinates.lng]
     IN /\ cache' = IF throws \/ cachedResult # NULL THEN cache
                    ELSE GeocodeStore(cache, mappingService, w.name, coordinates, clock, setOk)
        /\ Continue(r,
             IF w.route = "PUT /api/disasters/:id"
               THEN [w EXCEPT !.pc = "write", !.coordinates = point]
             ELSE IF throws THEN Respond(w, 500)
             ELSE IF coordinates = NULL THEN Respond(w, 400)
             ELSE [w EXCEPT !.pc = "write", !.coordinates = point])
  /\ UNCHANGED <<clock, lastWrite, lastOp, mappingService, geo, resolved>>
  /\ UNCHANGED <<published, started, storeVars, pointVars, viewVars, sweepVars, filterVars>>

\* a handler that goes on without looking at the error of the write
WriteError_Unchecked(accepted) == FALSE

\* if (error) return res.status(500)... after the insert, update or delete
WriteError(accepted) == ~accepted

\* the row an insert or update writes, from the locals of the handler
WrittenRow(w, row) ==
  CASE w.route = "POST /api/resources" ->
         [id |-> NewIds[w.seq], type |-> w.body.type, location_name |-> w.name,
          location |-> StGeogFromText(CreateResourcePoint(w.coordinates))]
    [] w.route = "PUT /api/resources/:id" ->
         [row EXCEPT
            !.type = IF w.body.type # Undefined THEN w.body.type ELSE @,
            !.location_name = IF w.name # Undefined THEN w.name ELSE @,
            !.location = IF w.coordinates # NULL
                           THEN StGeogFromText(UpdateResourcePoint(w.coordinates)) ELSE @]
    [] w.route = "POST /api/disasters" ->
         [id |-> NewIds[w.seq], owner_id |-> w.user, location_name |-> w.name,
          location |-> StGeogFromText(toGeographyPoint(w.coordinates.lat, w.coordinates.lng))]
    [] OTHER ->
         [row EXCEPT
            !.location_name = IF w.name # Undefined THEN w.name ELSE @,
            !.location = IF w.coordinates # NULL
                           THEN StGeogFromText(toGeographyPoint(w.coordinates.lat, w.coordinates.lng))
                           ELSE @]

\* the table after the insert, update or delete of the handler
TableAfter(w, rows) ==
  IF w.route \in CreateRoutes THEN rows \cup {WrittenRow(w, NULL)}
  ELSE IF w.route \in DeleteRoutes THEN rows \ RowsWithId(rows, w.id)
  ELSE (rows \ RowsWithId(rows, w.id)) \cup {WrittenRow(w, row) : row \in RowsWithId(rows, w.id)}

\* await supabase.from(table).insert / update / delete: the store accepts the
\* write or answers with an error; an update of no row is an error of .single()
Write(r, dbOk) ==
  /\ writes[r].pc = "write"
  /\ LET w == writes[r]
         onResources == w.route \in ResourceRoutes
         rows == IF onResources THEN resources ELSE disasters
         accepted == dbOk /\ (w.route \in UpdateRoutes => RowsWithId(rows, w.id) # {})
         after == IF accepted THEN TableAfter(w, rows) ELSE rows
         id == IF w.route \in CreateRoutes /\ accepted THEN NewIds[w.seq] ELSE w.id
         written == [IdleWrite EXCEPT !.route = w.route, !.id = id, !.committed = accepted]
     IN /\ resources' = IF onResources THEN after ELSE resources
        /\ disasters' = IF onResources THEN disasters ELSE after
        /\ Continue(r,
             IF WriteError(accepted) THEN Respond(written, 500)
             ELSE IF w.route \in {"POST /api/resources", "PUT /api/resources/:id"}
               THEN [written EXCEPT !.pc = "fetch"]
             ELSE IF w.route \in {"POST /api/disasters", "PUT /api/disasters/:id"}
               THEN [written EXCEPT !.pc = "emit",
                       !.data = IF accepted THEN CHOOSE row \in RowsWithId(after, id) : TRUE
                                ELSE NULL]
             ELSE [written EXCEPT !.pc = "emit"])
  /\ UNCHANGED <<resp, published, started, cacheVars, pointVars, viewVars, sweepVars, filterVars>>

\* get_resource_with_text_location(p_resource_id)
get_resource_with_text_location(rows, p_resource_id) ==
  {ResourceColumns(row) : row \in RowsWithId(rows, p_resource_id)}

StatusOk(route) == IF route \in CreateRoutes THEN 201 ELSE 200

ActionOf(route) ==
  CASE route \in CreateRoutes -> "create"
    [] route \in UpdateRoutes -> "update"
    [] OTHER -> "delete"

\* req.io.emit(event, payload)
Emit(w, event, entity) ==
  [event |-> event, action |-> ActionOf(w.route), id |-> w.id, entity |-> entity]

\* await supabase.rpc('get_resource_with_text_location'); without the row the
\* handler answers 500, with it it emits resources_updated and answers
FetchAndEmit(r, dbOk) ==
  /\ writes[r].pc = "fetch"
  /\ LET w == writes[r]
         resourceWithLocation == get_resource_with_text_location(resources, w.id)
     IN IF ~dbOk \/ resourceWithLocation = {}
          THEN /\ Continue(r, Respond(w, 500))
               /\ published' = published
          ELSE /\ published' = Emit(w, "resources_updated",
                                    CHOOSE row \in resourceWithLocation : TRUE)
               /\ Continue(r, Respond([w EXCEPT !.events = w.events + 1], StatusOk(w.route)))
  /\ UNCHANGED <<started, cacheVars, storeVars, pointVars, viewVars, sweepVars, filterVars>>

\* the write has returned without error: the handler emits and answers
EmitAfterWrite(r) ==
  /\ writes[r].pc = "emit"
  /\ LET w == writes[r]
     IN /\ published' = Emit(w, IF w.route \in ResourceRoutes THEN "resources_updated"
                                ELSE "disaster_updated", w.data)
        /\ Continue(r, Respond([w EXCEPT !.events = w.events + 1], StatusOk(w.route)))
  /\ UNCHANGED <<started, cacheVars, storeVars, pointVars, viewVars, sweepVars, filterVars>>

InitWrite ==
  /\ InitCacheVars
  /\ InitGeoVars
  /\ InitPointVars
  /\ InitWriteVars
  /\ InitViewVars
  /\ InitSweepVars
  /\ InitFilterVars
  /\ mappingService = "openstreetmap"
  /\ resources = SeedResources
  /\ disasters = SeedDisasters
  /\ resp = NoResp

NextWrite ==
  \/ \E r \in ReqIds, route \in ResourceRoutes \cup DisasterRoutes, user \in Users :
       \E id \in TargetIds(route), body \in BodiesOf(route) : StartWrite(r, route, user, id, body)
  \/ \E r \in ReqIds, dbOk \in BOOLEAN, noRowsFound \in BOOLEAN : CheckExists(r, dbOk, noRowsFound)
  \/ \E r \in ReqIds, getOk \in BOOLEAN, outcome \in GeminiOutcomes, setOk \in BOOLEAN :
       ExtractLocation(r, getOk, outcome, setOk)
  \/ \E r \in ReqIds, getOk \in BOOLEAN, outcome \in Outcomes, setOk \in BOOLEAN :
       Geocode(r, getOk, outcome, setOk)
  \/ \E r \in ReqIds, dbOk \in BOOLEAN : Write(r, dbOk)
  \/ \E r \in ReqIds, dbOk \in BOOLEAN : FetchAndEmit(r, dbOk)
  \/ \E r \in ReqIds : EmitAfterWrite(r)

SpecWrite == InitWrite /\ [][NextWrite]_vars

----------------------------------------------------------------------------
\* Real-time views: io.emit on the server, the socket of each browser and the
\* socket listeners of the pages.  In this part a row of a table is its id and
\* the number of the write that produced it.

\* the ids of the rows written in a run
NewResourceIds == {"x", "y"}
NewDisasterIds == {"z"}
IdOrder == <<"d1", "x", "y", "z">>
Pages == {"ResourcesMap", "Dashboard", "DisasterDetail"}
\* the pages that list resources
ResourcePages == {"ResourcesMap", "DisasterDetail"}
\* useParams().id of the DisasterDetail page
DetailId == "d1"

ViewRow(id, rev) == [id |-> id, rev |-> rev]
NoEntity == ViewRow(Undefined, 0)

IdsOf(rows) == {row.id : row \in rows}

\* the rows of a table as the list a GET answers with
ListOf(rows) ==
  LET present == SelectSeq(IdOrder, LAMBDA id : id \in IdsOf(rows))
  IN [i \in 1..Len(present) |-> CHOOSE row \in rows : row.id = present[i]]

\* how many entries of a list have the id
CountId(list, id) == Cardinality({i \in 1..Len(list) : list[i].id = id})

\* the payloads of req.io.emit('resources_updated', ...): resource on create
\* and update, resource_id on delete, and no disaster_id
ResourcesUpdated(action, row, id) ==
  [name |-> "resources_updated", action |-> action,
   entity |-> IF action = "delete" THEN NoEntity ELSE row,
   resource_id |-> IF action = "delete" THEN id ELSE Undefined,
   disaster_id |-> Undefined, seq |-> 0]

\* the payloads of req.io.emit('disaster_updated', ...): disaster on create and
\* update, disaster: { id } on delete
DisasterUpdated(action, row, id) ==
  [name |-> "disaster_updated", action |-> action,
   entity |-> IF action = "delete" THEN ViewRow(id, 0) ELSE row,
   resource_id |-> Undefined, disaster_id |-> Undefined, seq |-> 0]

Connected == {v \in Viewers : sockets[v].connected}

Recipients_Everyone == Viewers

\* io.emit sends to the sockets of the server's connection table
Recipients == Connected

\* io.emit(name, payload)
IoEmit(event) ==
  LET e == [event EXCEPT !.seq = Len(emitted) + 1]
  IN /\ inbox' = [v \in Viewers |->
                    IF v \in Recipients THEN Append(inbox[v], e) ELSE inbox[v]]
     /\ emitted' = Append(emitted, [sent |-> TRUE, to |-> Connected])

\* the write of a handler that commits
Committed(rows, action, id, rev) ==
  CASE action = "create" -> rows \cup {ViewRow(id, rev)}
    [] action = "update" -> {row \in rows : row.id # id} \cup {ViewRow(id, rev)}
    [] action = "delete" -> {row \in rows : row.id # id}

CanCommit(rows, action, id) ==
  IF action = "create" THEN id \notin IdsOf(rows) ELSE id \in IdsOf(rows)

\* POST, PUT and DELETE /api/resources on the path that commits: the write,
\* then for create and update the fetch of the row with its location text,
\* whose failure ends the handler with 500 before the emit.  MaxEvents bounds
\* the writes of a run.
WriteResource(action, id, fetchOk) ==
  /\ Len(emitted) < MaxEvents
  /\ CanCommit(resources, action, id)
  /\ LET rev == Len(emitted) + 1
     IN /\ resources' = Committed(resources, action, id, rev)
        /\ IF fetchOk \/ action = "delete"
             THEN IoEmit(ResourcesUpdated(action, ViewRow(id, rev), id))
             ELSE /\ inbox' = inbox
                  /\ emitted' = Append(emitted, [sent |-> FALSE, to |-> {}])
  /\ UNCHANGED <<disasters, resp>>

\* a request made by a client that shows no page of the model
ApiWrite(action, id, fetchOk) ==
  /\ WriteResource(action, id, fetchOk)
  /\ UNCHANGED <<sockets, local, loads, handled>>
  /\ UNCHANGED <<cacheVars, pointVars, writeVars, sweepVars, filterVars>>

\* App: io(url) once the user is known; the page mounts with an empty list,
\* registers its listeners and starts its first load
Connect(v, page) ==
  /\ ~sockets[v].connected
  /\ sockets' = [sockets EXCEPT ![v] = [connected |-> TRUE, page |-> page]]
  /\ local' = [local EXCEPT ![v] = <<>>]
  /\ loads' = [loads EXCEPT ![v] = [pc |-> "sent", data |-> <<>>]]
  /\ UNCHANGED <<inbox, emitted, handled>>
  /\ UNCHANGED <<cacheVars, storeVars, pointVars, writeVars, sweepVars, filterVars>>

\* newSocket.disconnect() when the application is left: what was on its way
\* to the page is lost with it
Disconnect(v) ==
  /\ sockets[v].connected
  /\ sockets' = [sockets EXCEPT ![v] = NoSocket]
  /\ local' = [local EXCEPT ![v] = <<>>]
  /\ inbox' = [inbox EXCEPT ![v] = <<>>]
  /\ loads' = [loads EXCEPT ![v] = NoLoad]
  /\ handled' = [handled EXCEPT ![v] = NoHandled]
  /\ UNCHANGED emitted
  /\ UNCHANGED <<cacheVars, storeVars, pointVars, writeVars, sweepVars, filterVars>>

ResourcesMapListener_ById(prev, data) ==
  CASE data.action = "create" -> Append(prev, data.entity)
    [] data.action = "update" ->
         [i \in 1..Len(prev) |-> IF prev[i].id = data.entity.id THEN data.entity ELSE prev[i]]
    [] data.action = "delete" -> SelectSeq(prev, LAMBDA r : r.id # data.entity.id)
    [] OTHER -> prev

\* socket.on('resources_updated') of ResourcesMap
ResourcesMapListener(prev, data) ==
  CASE data.action = "create" -> Append(prev, data.entity)
    [] data.action = "update" ->
         [i \in 1..Len(prev) |-> IF prev[i].id = data.entity.id THEN data.entity ELSE prev[i]]
    [] data.action = "delete" -> SelectSeq(prev, LAMBDA r : r.id # data.resource_id)
    [] OTHER -> prev

\* socket.on('disaster_updated') of Dashboard
DashboardListener(prev, data) ==
  CASE data.action = "create" -> <<data.entity>> \o prev
    [] data.action = "update" ->
         [i \in 1..Len(prev) |-> IF prev[i].id = data.entity.id THEN data.entity ELSE prev[i]]
    [] data.action = "delete" -> SelectSeq(prev, LAMBDA d : d.id # data.entity.id)
    [] OTHER -> prev

\* socket.on('resources_updated') of DisasterDetail
DisasterDetailListener(prev, data, id) ==
  IF data.disaster_id = id THEN ResourcesMapListener(prev, data) ELSE prev

\* the event a page listens to
ListensTo(page) == IF page = "Dashboard" THEN "disaster_updated" ELSE "resources_updated"

Listener(page, prev, data) ==
  CASE data.name # ListensTo(page) -> prev
    [] page = "ResourcesMap" -> ResourcesMapListener(prev, data)
    [] page = "Dashboard" -> DashboardListener(prev, data)
    [] page = "DisasterDetail" -> DisasterDetailListener(prev, data, DetailId)
    [] OTHER -> prev

\* the next event reaches the socket of the viewer and its page handles it
Deliver(v) ==
  /\ sockets[v].connected
  /\ inbox[v] # <<>>
  /\ LET data == Head(inbox[v])
     IN /\ local' = [local EXCEPT ![v] = Listener(sockets[v].page, local[v], data)]
        /\ handled' = [handled EXCEPT ![v] = [data |-> data, prev |-> local[v]]]
  /\ inbox' = [inbox EXCEPT ![v] = Tail(inbox[v])]
  /\ UNCHANGED <<sockets, loads, emitted>>
  /\ UNCHANGED <<cacheVars, storeVars, pointVars, writeVars, sweepVars, filterVars>>

\* loadResources / loadDisasters called again: a filter has changed
StartLoad(v) ==
  /\ sockets[v].connected
  /\ sockets[v].page # "DisasterDetail"
  /\ loads[v].pc = "idle"
  /\ loads' = [loads EXCEPT ![v] = [pc |-> "sent", data |-> <<>>]]
  /\ UNCHANGED <<sockets, local, inbox, emitted, handled>>
  /\ UNCHANGED <<cacheVars, storeVars, pointVars, writeVars, sweepVars, filterVars>>

\* GET /api/resources, GET /api/disasters, GET /api/disasters/:id/resources
\* (every resource of this part lies within the radius of the disaster); the
\* catch of a failed load leaves the list as it is
ServeLoad(v, ok) ==
  /\ loads[v].pc = "sent"
  /\ loads' = [loads EXCEPT ![v] =
       IF ok THEN [pc |-> "answered",
                   data |-> IF sockets[v].page = "Dashboard" THEN ListOf(disasters)
                            ELSE ListOf(resources)]
             ELSE NoLoad]
  /\ UNCHANGED <<sockets, local, inbox, emitted, handled>>
  /\ UNCHANGED <<cacheVars, storeVars, pointVars, writeVars, sweepVars, filterVars>>

\* the awaited response: setResources(data) / setDisasters(data)
LoadDone(v) ==
  /\ loads[v].pc = "answered"
  /\ local' = [local EXCEPT ![v] = loads[v].data]
  /\ loads' = [loads EXCEPT ![v] = NoLoad]
  /\ UNCHANGED <<sockets, inbox, emitted, handled>>
  /\ UNCHANGED <<cacheVars, storeVars, pointVars, writeVars, sweepVars, filterVars>>

\* handleSubmit of ResourcesMap up to its await: the POST and its handler; the
\* catch after a 500 changes nothing
Submit(v, id, fetchOk) ==
  /\ sockets[v].connected
  /\ sockets[v].page = "ResourcesMap"
  /\ loads[v].pc = "idle"
  /\ WriteResource("create", id, fetchOk)
  /\ loads' = [loads EXCEPT ![v] = IF fetchOk THEN [pc |-> "created", data |-> <<>>]
                                     ELSE NoLoad]
  /\ UNCHANGED <<sockets, local, handled>>
  /\ UNCHANGED <<cacheVars, pointVars, writeVars, sweepVars, filterVars>>

\* handleSubmit after its await: loadResources()
SubmitReturn(v) ==
  /\ loads[v].pc = "created"
  /\ loads' = [loads EXCEPT ![v] = [pc |-> "sent", data |-> <<>>]]
  /\ UNCHANGED <<sockets, local, inbox, emitted, handled>>
  /\ UNCHANGED <<cacheVars, storeVars, pointVars, writeVars, sweepVars, filterVars>>

InitView ==
  /\ InitCacheVars
  /\ InitGeoVars
  /\ InitPointVars
  /\ InitWriteVars
  /\ InitViewVars
  /\ InitSweepVars
  /\ InitFilterVars
  /\ mappingService = "openstreetmap"
  /\ resources = {ViewRow("x", 0)}
  /\ disasters = {ViewRow(DetailId, 0)}
  /\ resp = NoResp

NextView ==
  \/ \E action \in {"create", "update", "delete"}, id \in NewResourceIds,
        fetchOk \in BOOLEAN : ApiWrite(action, id, fetchOk)
  \/ \E v \in Viewers, page \in ResourcePages : Connect(v, page)
  \/ \E v \in Viewers : Disconnect(v)
  \/ \E v \in Viewers : Deliver(v)
  \/ \E v \in Viewers : StartLoad(v)
  \/ \E v \in Viewers, ok \in BOOLEAN : ServeLoad(v, ok)
  \/ \E v \in Viewers : LoadDone(v)
  \/ \E v \in Viewers, id \in NewResourceIds, fetchOk \in BOOLEAN : Submit(v, id, fetchOk)
  \/ \E v \in Viewers : SubmitReturn(v)

SpecView == InitView /\ [][NextView]_vars

----------------------------------------------------------------------------
\* The listeners taken alone: one browser shows ResourcesMap or Dashboard with
\* a list its load has answered, and events of either name arrive in any
\* order, the same one again included.

EventActions == {"create", "update", "delete"}

\* the ids a Dashboard list holds
DashboardIds == {DetailId} \cup NewDisasterIds

Payloads ==
  {ResourcesUpdated(action, ViewRow(id, 1), id) : action \in EventActions, id \in NewResourceIds}
    \cup {DisasterUpdated(action, ViewRow(id, 1), id) : action \in EventActions, id \in DashboardIds}

\* what the first load of the page may have put in the list
LoadedLists(page) ==
  {ListOf(rows) : rows \in SUBSET {ViewRow(id, 0) :
                     id \in IF page = "Dashboard" THEN DashboardIds ELSE NewResourceIds}}

\* an event reaches the socket; MaxList bounds the length of the list
Arrive(v, data) ==
  /\ sockets[v].connected
  /\ inbox[v] = <<>>
  /\ Len(local[v]) < MaxList
  /\ inbox' = [inbox EXCEPT ![v] = <<data>>]
  /\ UNCHANGED <<sockets, local, loads, emitted, handled>>
  /\ UNCHANGED <<cacheVars, storeVars, pointVars, writeVars, sweepVars, filterVars>>

InitReconcile ==
  /\ InitCacheVars
  /\ InitSweepVars
  /\ InitFilterVars
  /\ InitGeoVars
  /\ InitPointVars
  /\ InitWriteVars
  /\ mappingService = "openstreetmap"
  /\ resources = {}
  /\ disasters = {}
  /\ resp = NoResp
  /\ \E v \in Viewers, page \in {"ResourcesMap", "Dashboard"} :
       /\ sockets = [w \in Viewers |-> IF w = v THEN [connected |-> TRUE, page |-> page]
                                      ELSE NoSocket]
       /\ \E list \in LoadedLists(page) :
            local = [w \in Viewers |-> IF w = v THEN list ELSE <<>>]
  /\ inbox = [v \in Viewers |-> <<>>]
  /\ loads = [v \in Viewers |-> NoLoad]
  /\ emitted = <<>>
  /\ handled = [v \in Viewers |-> NoHandled]

NextReconcile ==
  \/ \E v \in Viewers, data \in Payloads : Arrive(v, data)
  \/ \E v \in Viewers : Deliver(v)

SpecReconcile == InitReconcile /\ [][NextReconcile]_vars

----------------------------------------------------------------------------
\* Location resolver

\* C1 (as claimed): on a cache miss resolve returns what trying the provider
\* chain in order returns, the answer of the first provider with a non-empty
\* result: when the configured provider fails or answers empty and a later
\* provider would answer, resolve returns the later provider's coordinates.
C1_ChainFallback ==
  \A r \in ReqIds :
    (geo[r].pc = "done" /\ ~geo[r].hit) => geo[r].result = geo[r].chain

\* C2: a resolution that succeeded is in the cache when resolve returns (the
\* store having accepted the set), and every later resolve of the name made
\* before the entry expires, the store answering, returns the same
\* coordinates from the cache and contacts no provider.
C2_StoredOnReturn ==
  \A r \in ReqIds :
    (geo[r].pc = "store" /\ geo'[r].pc = "done" /\ geo'[r].stored)
      => /\ geo'[r].result # NULL
         /\ GeocodeCached(cache', mappingService, geo[r].name, clock, TRUE) = geo'[r].result

C2_LaterCallsHit ==
  \A r \in ReqIds :
    (geo[r].pc # "idle" /\ geo[r].prior # NULL)
      => /\ geo[r].pc = "done"
         /\ geo[r].hit
         /\ geo[r].result = geo[r].prior
         /\ geo[r].called = {}

C2_CachedResolution == [][C2_StoredOnReturn]_vars /\ []C2_LaterCallsHit

\* a call served from the cache after an earlier call resolved the name
C2_Witness ==
  \E r \in ReqIds :
    /\ geo[r].pc = "done" /\ geo[r].hit /\ geo[r].called = {}
    /\ geo[r].prior = Coord(mappingService, geo[r].name)
    /\ geo[r].result = geo[r].prior

\* C3: when every provider fails or answers empty, resolve ends not-found and
\* leaves the cache as it was; a call made after a not-found outcome, with no
\* stored resolution of the name, misses the cache and asks the provider again.
C3_NotFoundWritesNothing ==
  \A r \in ReqIds :
    (geo[r].pc = "store" /\ geo'[r].pc = "done" /\ geo[r].chain = NULL)
      => /\ geo'[r].result = NULL
         /\ cache' = cache

C3_RetryAsksAgain ==
  \A r \in ReqIds :
    (geo[r].pc # "idle" /\ geo[r].afterNotFound /\ geo[r].prior = NULL)
      => /\ ~geo[r].hit
         /\ geo[r].pc = "done" => (geo[r].called # {} /\ geo[r].result = geo[r].coordinates)

C3_NoNegativeCaching == [][C3_NotFoundWritesNothing]_vars /\ []C3_RetryAsksAgain

\* a call made after a not-found outcome for the same name that asked the
\* provider and succeeded
C3_Witness ==
  \E r \in ReqIds :
    /\ geo[r].pc = "done" /\ geo[r].afterNotFound /\ ~geo[r].hit
    /\ geo[r].called # {} /\ geo[r].result = Coord(mappingService, geo[r].name)

----------------------------------------------------------------------------
\* TTL cache

\* what get must answer at time at, given the last accepted write of the key
Retrievable(written, at) ==
  IF written # NoRow /\ at < written.expires_at THEN written.value ELSE NULL

\* C4: a get the store answers returns the value of the last accepted set of
\* the key at every time before its expiresAt, and null at every time from
\* expiresAt on, also while the row is still in the table; that null is the
\* answer for a key that was never set or was deleted.
C4_GetHonoursExpiry ==
  (lastOp.op = "get" /\ lastOp.ok) => lastOp.value = Retrievable(lastOp.before, lastOp.at)

\* a get after expiresAt of a row that is still in the table answers null
C4_Witness ==
  /\ lastOp.op = "get" /\ lastOp.ok /\ lastOp.had
  /\ lastOp.before # NoRow /\ lastOp.at > lastOp.before.expires_at
  /\ lastOp.value = NULL

\* C5: the table holds at most one row per key, and after an accepted
\* set(k, v, ttl) the row of k is the one just written, with value v and
\* expiresAt = now + ttl, whatever row (live or expired) k had before: only
\* the value of the most recent set is retrievable.
C5_SetUpserts ==
  /\ \A key \in Keys : Cardinality(RowsOf(cache, key)) <= 1
  /\ (lastOp.op = "set" /\ lastOp.ok)
       => /\ RowsOf(cache, lastOp.key) \subseteq
               {[key |-> lastOp.key, value |-> lastOp.value, expires_at |-> lastOp.at + lastOp.ttl]}
          /\ CacheGet(cache, lastOp.key, clock, TRUE) =
               (IF clock < lastOp.at + lastOp.ttl THEN lastOp.value ELSE NULL)

\* a set with another value over a row that had expired and was still in the table
C5_Witness ==
  /\ lastOp.op = "set" /\ lastOp.ok /\ lastOp.had /\ lastOp.ttl > 0
  /\ lastOp.before # NoRow /\ lastOp.before.expires_at < lastOp.at
  /\ lastOp.before.value # lastOp.value
  /\ CacheGet(cache, lastOp.key, clock, TRUE) = lastOp.value

----------------------------------------------------------------------------
\* Geospatial queries

\* the radius of a request in kilometres: the radius parameter, 10 when not given
RadiusKm(query) == IF query.radius = Undefined THEN 10 ELSE ParseFloat(query.radius).num

\* findNear: the stored resources with a point within radiusKm * 1000 meters
\* of the centre and, when a type filter is given, of exactly that type
FindNear(centre, radiusKm, type) ==
  {r \in resources :
     /\ r.location # NULL
     /\ Distance(r.location, centre) <= radiusKm * 1000
     /\ Truthy(type) => r.type = type}

NumericRadius(query) == query.radius = Undefined \/ query.radius \in NumberStrings

IsCentreSearch ==
  /\ resp.route = "GET /api/resources"
  /\ resp.query.lat \in NumberStrings /\ resp.query.lng \in NumberStrings
  /\ NumericRadius(resp.query)

IsDisasterSearch ==
  /\ resp.route = "GET /api/disasters/:id/resources"
  /\ resp.status = 200
  /\ NumericRadius(resp.query)

DisasterLocation(id) == (CHOOSE d \in disasters : d.id = id).location

Unresolved == {r \in resources : r.location = NULL}

\* the request was a search around a centre
IsGeospatial ==
  \/ resp.route = "GET /api/resources" /\ Truthy(resp.query.lat) /\ Truthy(resp.query.lng)
  \/ resp.route = "GET /api/disasters/:id/resources"
  \/ /\ resp.route = "rpc get_resources_with_text_location"
     /\ resp.query.lat \in NumberStrings /\ resp.query.lng \in NumberStrings

\* the request was the listing without a centre
IsListing ==
  resp.route = "GET /api/resources" /\ ~(Truthy(resp.query.lat) /\ Truthy(resp.query.lng))

\* C7: a resource whose point is unresolved (NULL) is in the answer of no
\* search around a centre, whatever the radius, and is in the answer of the
\* listing without a centre whenever it passes the type filter.
C7_UnresolvedInvisible ==
  /\ IsGeospatial => \A r \in Unresolved : r.id \notin {b.id : b \in resp.body}
  /\ (IsListing /\ resp.status = 200) =>
       \A r \in Unresolved :
         (Truthy(resp.query.type) => r.type = resp.query.type) => ResourceColumns(r) \in resp.body

\* a search that returns resolved resources and leaves the unresolved one out
C7_Witness ==
  /\ IsGeospatial /\ resp.status = 200
  /\ Unresolved # {}
  /\ resp.body # {}
  /\ \A r \in Unresolved : r.id \notin {b.id : b \in resp.body}

----------------------------------------------------------------------------
\* Point text

\* POINT(<lng> <lat>)
CanonicalPoint(lat, lng) ==
  Chars("POINT(") \o NumberToChars(lng) \o <<" ">> \o NumberToChars(lat) \o <<")">>

\* C8: on every producer path the text built from (lat, lng) is
\* POINT(<lng> <lat>), longitude first (followed by the ::geography cast on the
\* radius filter), the store reads it as the point (lat, lng), and every
\* consumer that takes coordinates from a stored point gets (lat, lng) back,
\* never the swapped pair.
C8_AxisOrder ==
  /\ (pt.pc # "idle" /\ pt.path \in WritePaths) => pt.text = CanonicalPoint(pt.lat, pt.lng)
  /\ (pt.pc # "idle" /\ pt.path = FilterPath) =>
       pt.text = CanonicalPoint(pt.lat, pt.lng) \o Chars("::geography")
  /\ pt.pc \in {"stored", "done"} => pt.location = [lat |-> pt.lat, lng |-> pt.lng]
  /\ pt.pc = "done" => pt.parsed = [lat |-> Num(pt.lat), lng |-> Num(pt.lng)]

\* Manhattan (40.7, -74) written by POST /api/disasters as POINT(-74 40.7) and
\* parsed back from the text by the map page
C8_Witness ==
  /\ pt.pc = "done" /\ pt.path = "POST /api/disasters"
  /\ pt.lat = 407 /\ pt.lng = -740
  /\ pt.text = <<"P", "O", "I", "N", "T", "(", "-", "7", "4", " ", "4", "0", ".", "7", ")">>
  /\ pt.resource.has = {"location_text"}
  /\ pt.parsed = [lat |-> Num(407), lng |-> Num(-740)]

----------------------------------------------------------------------------
\* Events of the write routes

\* C9 (as claimed): a request that has committed its create, update or delete
\* has published exactly one event by the time it answers, on every path the
\* handler can take after the write.
C9_ExactlyOneEvent ==
  (answered.route # "none" /\ answered.committed) => answered.events = 1

\* C10, steps: an event is published only by a request whose write the store
\* has accepted in an earlier step, and no event is published in any other step.
C10_PublishAfterCommit ==
  /\ \A r \in ReqIds :
       (writes[r].pc \in {"fetch", "emit"} /\ writes'[r].pc = "idle"
          /\ answered'.events > 0) => writes[r].committed
  /\ published' # published =>
       \E r \in ReqIds : writes[r].committed /\ writes[r].pc \in {"fetch", "emit"}
                           /\ writes'[r].pc = "idle" /\ answered'.events = 1
  /\ \A r \in ReqIds :
       (~writes[r].committed /\ writes'[r].committed) =>
         /\ writes[r].pc = "write"
         /\ writes[r].route \in CreateRoutes =>
              \E row \in resources' \cup disasters' : row.id = writes'[r].id

\* C10, answers: a request that answers without a committed write (validation
\* error, authorization failure, unresolvable location, store error) has
\* published no event and answers with an error status.
C10_RejectedSilent ==
  /\ \A r \in ReqIds : writes[r].events > 0 => writes[r].committed
  /\ (answered.route # "none" /\ ~answered.committed) =>
       answered.events = 0 /\ answered.status >= 400
  /\ answered.status >= 400 => answered.events = 0

\* C10: publish is called only after the write is committed, and a request
\* whose write is rejected or fails emits no event.
C10_PublishOnlyAfterCommit == [][C10_PublishAfterCommit]_vars /\ []C10_RejectedSilent

\* a delete that the store refused: answered 500, nothing published
C10_Witness ==
  /\ answered.route = "DELETE /api/resources/:id"
  /\ answered.status = 500 /\ ~answered.committed /\ answered.events = 0
  /\ resources = SeedResources
  /\ published = NoEvent

----------------------------------------------------------------------------
\* C11, the publish step: the event given to io.emit is put on the way to the
\* socket of every viewer connected at that moment and to no other socket.
C11_SentToConnected ==
  (Len(emitted') > Len(emitted) /\ emitted'[Len(emitted')].sent) =>
    /\ emitted'[Len(emitted')].to = Connected
    /\ \A v \in Viewers :
         IF sockets[v].connected
           THEN /\ Len(inbox'[v]) = Len(inbox[v]) + 1
                /\ inbox'[v][Len(inbox'[v])].seq = Len(emitted')
           ELSE inbox'[v] = inbox[v]

\* C11, no replay: every event on its way to a viewer, and the event its page
\* handled last, was published while that viewer's socket was connected.
C11_NoReplay ==
  \A v \in Viewers :
    LET seqs == {inbox[v][i].seq : i \in 1..Len(inbox[v])}
                  \cup ({handled[v].data.seq} \ {0})
    IN \A n \in seqs : n \in 1..Len(emitted) /\ emitted[n].sent /\ v \in emitted[n].to

\* C11: a published event is delivered to every viewer connected at publish
\* time and to no viewer that connects afterwards; nothing is retained and
\* replayed to a socket that connects later.
C11_FanOutNoReplay == [][C11_SentToConnected]_vars /\ []C11_NoReplay

\* one viewer was connected at the publish and has handled the event, the
\* other connected afterwards and has nothing on its way
C11_Witness ==
  \E v, w \in Viewers :
    /\ v # w
    /\ Len(emitted) = 1 /\ emitted[1].sent /\ emitted[1].to = {v}
    /\ handled[v].data.seq = 1
    /\ sockets[w].connected /\ inbox[w] = <<>> /\ handled[w].data.seq = 0

----------------------------------------------------------------------------
\* the viewers whose page has just handled an event of the given action that
\* it listens to
Handled(action) ==
  {v \in Viewers : /\ sockets[v].connected
                   /\ handled[v].data.action = action
                   /\ handled[v].data.name = ListensTo(sockets[v].page)}

\* the id an event is about: resource_id on the delete of a resource, the id
\* of the entity otherwise
EventId(data) ==
  IF data.name = "resources_updated" /\ data.action = "delete"
    THEN data.resource_id ELSE data.entity.id

\* the entries of a list with another id
Others(list, id) == SelectSeq(list, LAMBDA row : row.id # id)

\* C12 (as claimed): after a create event is handled the list holds exactly
\* one entry with the id of the event, also when an entry with that id was
\* already there (the same create delivered twice).
C12_CreateIdempotent ==
  \A v \in Handled("create") :
    CountId(local[v], EventId(handled[v].data)) = 1

\* C13 (as claimed): after an update event is handled the list holds the
\* entity of the event as its only entry with that id, inserted when no entry
\* had the id, and the other entries are unchanged.
C13_UpdateUpserts ==
  \A v \in Handled("update") :
    LET data == handled[v].data
    IN /\ CountId(local[v], data.entity.id) = 1
       /\ \E i \in 1..Len(local[v]) : local[v][i] = data.entity
       /\ Others(local[v], data.entity.id) = Others(handled[v].prev, data.entity.id)

\* C14: after a delete event is handled the list is the list before it without
\* the entries whose id is the id carried by the event (resource_id for a
\* resource, disaster.id for a disaster); when no entry has that id the list is
\* unchanged, and no entry is ever added.
C14_DeleteRemovesById ==
  \A v \in Handled("delete") :
    LET id == EventId(handled[v].data)
    IN /\ local[v] = Others(handled[v].prev, id)
       /\ CountId(handled[v].prev, id) = 0 => local[v] = handled[v].prev

\* ResourcesMap held two resources and has handled the delete of one of them
C14_Witness ==
  \E v \in Handled("delete") :
    /\ sockets[v].page = "ResourcesMap"
    /\ Len(handled[v].prev) = 2
    /\ CountId(handled[v].prev, handled[v].data.resource_id) = 1
    /\ Len(local[v]) = 1
    /\ CountId(local[v], handled[v].data.resource_id) = 0

----------------------------------------------------------------------------
\* C15 (as claimed): once a ResourcesMap viewer has handled the create event
\* of a resource, and no later write has been committed, its list holds that
\* resource exactly once, whatever the order of the event and of the answers
\* to the loads the page has started (the reload of handleSubmit included).
C15_ListedOnce ==
  \A v \in Handled("create") :
    (sockets[v].page = "ResourcesMap" /\ handled[v].data.seq = Len(emitted)) =>
      CountId(local[v], handled[v].data.entity.id) = 1

----------------------------------------------------------------------------
\* the entities of a list
Entries(list) == {list[i] : i \in 1..Len(list)}

\* C20 (as claimed): when a DisasterDetail viewer has handled a
\* resources_updated event, and no later write has been committed, its
\* resource list shows the change: the created resource is in it, the updated
\* resource has replaced the entry it had, the deleted resource is gone.
C20_DetailFollowsEvents ==
  \A v \in Viewers :
    LET data == handled[v].data
    IN (/\ sockets[v].connected /\ sockets[v].page = "DisasterDetail"
        /\ data.name = "resources_updated" /\ data.seq = Len(emitted)) =>
         CASE data.action = "create" -> data.entity \in Entries(local[v])
           [] data.action = "update" ->
                CountId(handled[v].prev, data.entity.id) > 0 => data.entity \in Entries(local[v])
           [] data.action = "delete" -> CountId(local[v], data.resource_id) = 0
           [] OTHER -> TRUE

----------------------------------------------------------------------------
\* C16, the two calls: a get the store fails is a miss and the resolver goes on
\* to the provider; a set the store fails writes nothing and the resolver
\* returns the provider's coordinates all the same.
C16_ErrorIsMiss ==
  /\ \A r \in ReqIds, name \in Names :
       GeocodeCall(r, name, FALSE) =>
         geo'[r].pc = "lookup" /\ ~geo'[r].hit /\ geo'[r].result = NULL
  /\ \A r \in ReqIds :
       GeocodeReturn(r, FALSE) =>
         /\ geo'[r].pc = "done"
         /\ geo'[r].result = geo[r].coordinates
         /\ cache' = cache

\* C16, the outcome: a resolve that did not hit the cache returns what the
\* provider answered, coordinates or not found, and nothing else.
C16_MissReturnsProvider ==
  \A r \in ReqIds :
    (geo[r].pc = "done" /\ ~geo[r].hit) =>
      /\ geo[r].result = geo[r].coordinates
      /\ geo[r].result \in {NULL, Coord(mappingService, geo[r].name)}

\* C16: an error of the cache store on get or on set is treated as a miss:
\* resolve proceeds to the provider and returns its coordinates, and the error
\* does not reach the caller.
C16_CacheErrorsSwallowed == [][C16_ErrorIsMiss]_vars /\ []C16_MissReturnsProvider

\* a resolve has returned the provider's coordinates although the store
\* refused to keep them
C16_Witness ==
  \E r \in ReqIds :
    /\ geo[r].pc = "done" /\ ~geo[r].hit /\ ~geo[r].stored
    /\ geo[r].result = Coord(mappingService, geo[r].name)
    /\ RowsOf(cache, GeocodeKey(mappingService, geo[r].name)) = {}

\* C17 (as claimed): when the request to the configured provider fails, the
\* failure is taken as an empty answer and the chain goes on: resolve has no
\* coordinates only when no provider of the chain would have answered.
C17_FailureGoesOn ==
  \A r \in ReqIds, st \in [Providers -> Outcomes] :
    (GeocodeProvider(r, st) /\ st[mappingService] = "fail") =>
      /\ geo'[r].pc = "store"
      /\ geo'[r].coordinates = NULL =>
           \A p \in Providers : ProviderAnswer(p, geo[r].name, st[p]) = NULL

C17_FailureOnlyWhenExhausted == [][C17_FailureGoesOn]_vars

----------------------------------------------------------------------------
\* the request was a search around a centre with a lat, lng or radius that is
\* not a number
MalformedSearch ==
  \/ /\ resp.route = "GET /api/resources"
     /\ Truthy(resp.query.lat) /\ Truthy(resp.query.lng)
     /\ \/ ParseFloat(resp.query.lat) = NaN
        \/ ParseFloat(resp.query.lng) = NaN
        \/ ParseFloat(RadiusOrDefault(resp.query.radius)) = NaN
  \/ /\ resp.route = "GET /api/disasters/:id/resources"
     /\ resp.query.id \in {d.id : d \in disasters}
     /\ ParseFloat(RadiusOrDefault(resp.query.radius)) = NaN

\* C18 (as claimed): a search around a centre whose lat, lng or radius is not
\* a number is answered with HTTP 400, never with a result list and never
\* with a server error.
C18_MalformedRejected == MalformedSearch => resp.status = 400

----------------------------------------------------------------------------
\* C19, the sweep step: the delete of clearExpired, run on the rows the store
\* holds at that moment, removes only rows that are expired then and changes
\* the answer of get for no key.
C19_SweepStep ==
  \A storeOk \in BOOLEAN :
    SweepRun(storeOk) =>
      /\ cache' \subseteq cache
      /\ \A row \in cache \ cache' : row.expires_at <= clock
      /\ \A key \in GenericKeys :
           CacheGet(cache', key, clock, TRUE) = CacheGet(cache, key, clock, TRUE)

\* C19, every state: whatever gets, sets, deletes and sweeps have run, and
\* while a sweep is between its two steps, the value of the last accepted
\* set of a key is returned by get as long as its expiresAt is in the future.
C19_LiveRowsKept ==
  \A key \in GenericKeys :
    (lastWrite[key] # NoRow /\ clock < lastWrite[key].expires_at) =>
      CacheGet(cache, key, clock, TRUE) = lastWrite[key].value

\* C19: clearExpired, interleaved in any order with get, set and delete, never
\* removes a row that is not expired at the time of the sweep; every key whose
\* row has expiresAt in the future, a row refreshed by a concurrent set
\* included, is still returned by get after it.
C19_SweepKeepsLive == [][C19_SweepStep]_vars /\ []C19_LiveRowsKept

\* a sweep has deleted an expired row and has left the row of a key whose
\* expired row a set replaced between the two steps of the sweep
C19_Witness ==
  /\ sweep.pc = "idle" /\ sweep.removed /\ sweep.refreshed # <<>>
  /\ CacheGet(cache, sweep.refreshed, clock, TRUE) # NULL
  /\ CacheGet(cache, sweep.refreshed, clock, TRUE) = lastWrite[sweep.refreshed].value

----------------------------------------------------------------------------
\* Authorization of the disaster delete

\* C21 (as claimed): DELETE /api/disasters/:id is for the admin role only: no
\* request of a caller whose role is not admin removes a row of the disasters
\* table or gets as far as the disaster_updated delete event, whoever owns
\* the disaster.
C21_AdminOnlyDelete ==
  [][\A r \in ReqIds :
       (/\ writes[r].route = "DELETE /api/disasters/:id"
        /\ writes[r].pc = "write"
        /\ \/ disasters' # disasters
           \/ writes'[r].pc = "emit")
         => RoleOf(writes[r].user) = "admin"]_vars

----------------------------------------------------------------------------
\* Re-resolution of the point on update

\* the table a write route works on
TableOf(route) == IF route \in ResourceRoutes THEN resources ELSE disasters

\* C22 (as claimed): an update whose location_name is the one the entity
\* already has stored does not go on to the Location Resolver (and so does not
\* rewrite the point), for resources and for disasters.
C22_ResolveOnlyOnChange ==
  [][\A r \in ReqIds :
       (/\ writes[r].pc = "check"
        /\ writes[r].route \in UpdateRoutes
        /\ \E row \in RowsWithId(TableOf(writes[r].route), writes[r].id) :
             row.location_name = writes[r].body.location_name)
         => writes'[r].pc # "geocode"]_vars

\* the point the Location Resolver gives for a name it resolves
PointOfName(name) == [lat |-> LatOf(name), lng |-> LngOf(name)]

\* C27 (as claimed): after any sequence of create and update requests the
\* point of every stored entity is unset or is the resolution of the entity's
\* current location_name; a new name is never stored beside the point of the
\* old name, also when resolving the new name fails or finds nothing.
C27_PointOfCurrentName ==
  \A row \in resources \cup disasters :
    \/ row.location = NULL
    \/ row.location_name \in Names /\ row.location = PointOfName(row.location_name)

----------------------------------------------------------------------------
\* geminiService.extractLocation called again for the same description

\* POST /api/disasters by a contributor with title and description and
\* without location_name: the handler asks extractLocation(description)
StartExtract(r) ==
  /\ writes[r].pc = "idle"
  /\ \A q \in ReqIds : q < r => writes[q].pc # "idle"
  /\ started < MaxCalls
  /\ started' = started + 1
  /\ Continue(r, Begin([IdleWrite EXCEPT !.seq = started + 1, !.route = "POST /api/disasters",
                          !.user = "contributor1",
                          !.body = [type |-> "medical", location_name |-> Undefined]]))
  /\ UNCHANGED <<published, cacheVars, storeVars, pointVars, viewVars, sweepVars, filterVars>>

NextExtract ==
  \/ \E r \in ReqIds : StartExtract(r)
  \/ \E r \in ReqIds, getOk \in BOOLEAN, outcome \in GeminiOutcomes, setOk \in BOOLEAN :
       ExtractLocation(r, getOk, outcome, setOk)
  \/ \E r \in ReqIds, getOk \in BOOLEAN, outcome \in Outcomes, setOk \in BOOLEAN :
       Geocode(r, getOk, outcome, setOk)
  \/ \E r \in ReqIds, dbOk \in BOOLEAN : Write(r, dbOk)
  \/ \E r \in ReqIds : EmitAfterWrite(r)

SpecExtract == InitWrite /\ [][NextExtract]_vars

\* the text the model is told to answer when the description names no place
LOCATION_NOT_FOUND == "LOCATION_NOT_FOUND"

\* C30 (as claimed): extractLocation gives the same result for the same
\* description from the model and from the cache: when no location is found
\* it is null on every call, never the text LOCATION_NOT_FOUND, so no caller
\* goes on to geocode the sentinel or stores it as a location name.
C30_SentinelNeverReturned ==
  /\ \A r \in ReqIds : writes[r].name # LOCATION_NOT_FOUND
  /\ \A row \in disasters : row.location_name # LOCATION_NOT_FOUND

----------------------------------------------------------------------------
\* Disasters on the equator or the prime meridian

\* C29 (as claimed): GET /api/disasters/:id/resources runs the radius search
\* for every disaster with a resolved point, a latitude or longitude of
\* exactly 0 included; 'Disaster does not have valid location coordinates'
\* (400) is answered only when the point of the disaster is unset.
C29_ZeroIsACoordinate ==
  (/\ resp.route = "GET /api/disasters/:id/resources"
   /\ \E d \in disasters : d.id = resp.query.id)
    => /\ resp.status = 400 => DisasterLocation(resp.query.id) = NULL
       /\ DisasterLocation(resp.query.id) # NULL => resp.status \in {200, 500}

----------------------------------------------------------------------------
\* Events out of order

\* the page of the viewer is about to handle an update of the entity whose
\* delete was the event it handled last
UpdateAfterDelete(v) ==
  /\ v \in Handled("delete")
  /\ inbox[v] # <<>>
  /\ Head(inbox[v]).name = handled[v].data.name
  /\ Head(inbox[v]).action = "update"
  /\ Head(inbox[v]).entity.id = EventId(handled[v].data)

\* C23 (as claimed): an update event for an id that is delivered after the
\* delete event for that id puts the entity back into the viewer's list.
C23_UpdateAfterDeleteResurrects ==
  [][\A v \in Viewers :
       (UpdateAfterDelete(v) /\ handled'[v].data = Head(inbox[v]))
         => CountId(local'[v], Head(inbox[v]).entity.id) >= 1]_vars

----------------------------------------------------------------------------
\* ResourcesMap of one viewer that stays connected: its filters, the
\* loadResources calls they start, and the events of the writes of others.
\* Resource x is a medical resource in Manhattan, resource y a shelter in
\* Atlantis.

FilterViewer == "v1"
ResourceTypeFilters == {"", "medical"}
SearchLocations == {"", "Manhattan, NYC"}

TypeOfId(id) == IF id = "x" THEN "medical" ELSE "shelter"
PlaceOfId(id) == PointOfName(IF id = "x" THEN "Manhattan, NYC" ELSE "Atlantis")

\* POST /api/geocode/location as the client sees it: response.data on 200;
\* on 400 and 500 axios throws and the catch of loadResources leaves null
GeocodeLocation(name, outcome) ==
  IF outcome = "ok"
    THEN [location_name |-> name, coordinates |-> PointOfName(name),
          display_name |-> <<"openstreetmap", name>>,
          geography_point |-> toGeographyPoint(LatOf(name), LngOf(name))]
    ELSE NULL

\* undefined where a value of any kind may stand
NotGiven == [undefined |-> TRUE]

\* obj?.field
OptionalField(obj, field) ==
  IF obj = NULL THEN NotGiven
  ELSE IF field \in DOMAIN obj THEN [value |-> obj[field]] ELSE NotGiven

\* apiService.getAllResources(lat, lng, radius, type): the params of the GET
GetAllResourcesParams(lat, lng, type) ==
  [lat |-> IF lat # NotGiven /\ lng # NotGiven THEN lat ELSE NotGiven,
   lng |-> IF lat # NotGiven /\ lng # NotGiven THEN lng ELSE NotGiven,
   type |-> IF Truthy(type) THEN type ELSE Undefined]

\* GET /api/resources on the rows of this part: within the radius of the
\* centre when lat and lng are given, of the type when type is given
ResourcesFor(rows, params) ==
  {row \in rows :
     /\ params.type # Undefined => TypeOfId(row.id) = params.type
     /\ (params.lat # NotGiven /\ params.lng # NotGiven)
          => PlaceOfId(row.id) = [lat |-> params.lat.value, lng |-> params.lng.value]}

\* loadResources() up to its first await, with the filters of its render
NewCall(u) ==
  [resourceType |-> u.resourceType, searchLocation |-> u.searchLocation,
   pc |-> IF Truthy(u.searchLocation) THEN "geocode" ELSE "list",
   coords |-> NULL, lat |-> NotGiven, lng |-> NotGiven, data |-> <<>>]

RemoveAt(seq, i) == SubSeq(seq, 1, i - 1) \o SubSeq(seq, i + 1, Len(seq))

\* a filter control is changed: the render makes a new loadResources, the
\* effect on it calls it at once and the debounce effect restarts its timer
ChangeFilter(field, value) ==
  /\ ui.started < MaxLoads
  /\ ui[field] # value
  /\ LET u == [ui EXCEPT ![field] = value, !.timer = TRUE, !.started = @ + 1]
     IN /\ ui' = u
        /\ calls' = Append(calls, NewCall(u))
  /\ UNCHANGED <<cacheVars, storeVars, pointVars, writeVars, viewVars, sweepVars>>

\* setTimeout(() => loadResources(), 500) of the last render
DebounceFires ==
  /\ ui.timer
  /\ ui.started < MaxLoads
  /\ ui' = [ui EXCEPT !.timer = FALSE, !.started = @ + 1]
  /\ calls' = Append(calls, NewCall(ui))
  /\ UNCHANGED <<cacheVars, storeVars, pointVars, writeVars, viewVars, sweepVars>>

\* coords = await apiService.geocodeLocation(searchLocation), then the call
\* of apiService.getAllResources(coords?.lat, coords?.lng, ...)
GeocodeReturns(i, outcome) ==
  /\ i \in 1..Len(calls)
  /\ calls[i].pc = "geocode"
  /\ LET coords == GeocodeLocation(calls[i].searchLocation, outcome)
     IN calls' = [calls EXCEPT ![i] = [@ EXCEPT !.pc = "list", !.coords = coords,
                                         !.lat = OptionalField(coords, "lat"),
                                         !.lng = OptionalField(coords, "lng")]]
  /\ UNCHANGED ui
  /\ UNCHANGED <<cacheVars, storeVars, pointVars, writeVars, viewVars, sweepVars>>

\* the server answers the GET of the call from the rows it holds then; when
\* it fails the catch of loadResources sets the error and keeps the list
ListResources(i, ok) ==
  /\ i \in 1..Len(calls)
  /\ calls[i].pc = "list"
  /\ LET params == GetAllResourcesParams(calls[i].lat, calls[i].lng, calls[i].resourceType)
     IN IF ok
          THEN /\ calls' = [calls EXCEPT ![i] = [@ EXCEPT !.pc = "answered",
                                                   !.data = ListOf(ResourcesFor(resources, params))]]
               /\ ui' = ui
          ELSE /\ calls' = RemoveAt(calls, i)
               /\ ui' = [ui EXCEPT !.error = TRUE]
  /\ UNCHANGED <<cacheVars, storeVars, pointVars, writeVars, viewVars, sweepVars>>

\* the response reaches the page: setResources(filteredData); setError(null)
LoadReturns(i) ==
  /\ i \in 1..Len(calls)
  /\ calls[i].pc = "answered"
  /\ local' = [local EXCEPT ![FilterViewer] = calls[i].data]
  /\ ui' = [ui EXCEPT !.error = FALSE]
  /\ calls' = RemoveAt(calls, i)
  /\ UNCHANGED <<sockets, inbox, loads, emitted, handled>>
  /\ UNCHANGED <<cacheVars, storeVars, pointVars, writeVars, sweepVars>>

\* the page is mounted: both effects have called loadResources and the timer
\* of the debounce effect runs
InitFilter ==
  /\ InitCacheVars
  /\ InitGeoVars
  /\ InitPointVars
  /\ InitWriteVars
  /\ InitSweepVars
  /\ mappingService = "openstreetmap"
  /\ resources \in {{ViewRow("x", 0)}, {ViewRow("x", 0), ViewRow("y", 0)}}
  /\ disasters = {ViewRow(DetailId, 0)}
  /\ resp = NoResp
  /\ sockets = [v \in Viewers |-> IF v = FilterViewer
                                    THEN [connected |-> TRUE, page |-> "ResourcesMap"]
                                    ELSE NoSocket]
  /\ local = [v \in Viewers |-> <<>>]
  /\ inbox = [v \in Viewers |-> <<>>]
  /\ loads = [v \in Viewers |-> NoLoad]
  /\ emitted = <<>>
  /\ handled = [v \in Viewers |-> NoHandled]
  /\ ui = [NoUi EXCEPT !.timer = TRUE, !.started = 2]
  /\ calls = <<NewCall(NoUi), NewCall(NoUi)>>

NextFilter ==
  \/ \E value \in ResourceTypeFilters : ChangeFilter("resourceType", value)
  \/ \E value \in SearchLocations : ChangeFilter("searchLocation", value)
  \/ DebounceFires
  \/ \E i \in 1..MaxLoads, outcome \in Outcomes : GeocodeReturns(i, outcome)
  \/ \E i \in 1..MaxLoads, ok \in BOOLEAN : ListResources(i, ok)
  \/ \E i \in 1..MaxLoads : LoadReturns(i)
  \/ \E action \in EventActions, id \in NewResourceIds, fetchOk \in BOOLEAN :
       ApiWrite(action, id, fetchOk)
  \/ Deliver(FilterViewer)

SpecFilter == InitFilter /\ [][NextFilter]_vars

----------------------------------------------------------------------------
\* the ids of the entries of a list
ListIds(list) == {list[i].id : i \in 1..Len(list)}

\* every call of loadResources has returned and none is due, the last one
\* without error, and every event sent to the viewer has been handled
Settled ==
  /\ calls = <<>>
  /\ ~ui.timer
  /\ ~ui.error
  /\ inbox[FilterViewer] = <<>>

\* C24 (as claimed): a viewer without filter that stays connected has, once
\* the answers of all its loads and all published events have been
\* delivered, exactly the ids of the server store in its list, in every
\* interleaving of writes, events and answers (every write of the run was
\* published).
C24_Converges ==
  (/\ Settled
   /\ ui.resourceType = "" /\ ui.searchLocation = ""
   /\ \A i \in 1..Len(emitted) : emitted[i].sent)
    => ListIds(local[FilterViewer]) = IdsOf(resources)

\* the lists a load with the filters of the page can be answered with from
\* the rows the store holds: without centre, or around the resolved centre
Answers(u) ==
  {ListOf(ResourcesFor(resources, GetAllResourcesParams(c.lat, c.lng, u.resourceType))) :
     c \in {[lat |-> NotGiven, lng |-> NotGiven]}
             \cup (IF Truthy(u.searchLocation)
                     THEN {[lat |-> [value |-> LatOf(u.searchLocation)],
                            lng |-> [value |-> LngOf(u.searchLocation)]]}
                     ELSE {})}

\* C25 (as claimed), on the step that handles a create or update event: the
\* entity of the event is in the list afterwards only if a load with the
\* active filters would return it.
C25_EventsRespectQuery ==
  [][(/\ handled'[FilterViewer] # handled[FilterViewer]
      /\ handled'[FilterViewer].data.name = "resources_updated"
      /\ handled'[FilterViewer].data.action \in {"create", "update"}
      /\ CountId(local'[FilterViewer], handled'[FilterViewer].data.entity.id) > 0)
       => \E list \in Answers(ui) :
            CountId(list, handled'[FilterViewer].data.entity.id) > 0]_vars

\* C26 (as claimed), on the step that gives the page the answer of a load
\* (no write in the run): a list that answers the filters the page has now is
\* not replaced by one that does not, so that the list shown when all answers
\* have arrived is the answer to the most recent filters, whatever the order
\* of the answers.
C26_LatestFilterWins ==
  [][(/\ emitted = <<>>
      /\ Len(calls') < Len(calls)
      /\ local'[FilterViewer] # local[FilterViewer]
      /\ local[FilterViewer] \in Answers(ui))
       => local'[FilterViewer] \in Answers(ui)]_vars

\* C28 (as claimed): when the resolver has answered the search location of a
\* load, the list request of that load carries the coordinates of the answer
\* as lat and lng, and the list returned holds only resources around them.
C28_CentreIsSent ==
  \A i \in 1..Len(calls) :
    (calls[i].pc \in {"list", "answered"} /\ calls[i].coords # NULL) =>
      /\ calls[i].lat = [value |-> calls[i].coords.coordinates.lat]
      /\ calls[i].lng = [value |-> calls[i].coords.coordinates.lng]
      /\ \A id \in ListIds(calls[i].data) : PlaceOfId(id) = calls[i].coords.coordinates

====
